---- MODULE Spec2Model ----
(***************************************************************************)
(* Model of the feathers_inspector field-edit pipeline: the reflective     *)
(* traversal of a component (detail_panel.rs), the path-addressed          *)
(* write-back engine and its pending-change queue (drag_value.rs), and the *)
(* per-frame system schedule (plugin.rs).                                  *)
(*                                                                         *)
(* Numbers.  An f64 is carried as an integer count of tenths (59 is 5.9).  *)
(* A float leaf stores tenths; an integer leaf stores whole units; a bool  *)
(* leaf stores 0 or 1.  Magnitudes from 2^31 - 1 upward do not fit the     *)
(* integers of TLC; the ones the casts distinguish are carried as          *)
(* landmarks Far(1) < Far(2) < ... placed above every near number, so that *)
(* comparing two numbers of the model compares the numbers they stand for. *)
(***************************************************************************)
EXTENDS Integers, Sequences, FiniteSets, TLC

VARIABLES
    world,        \* the ECS store: slot -> [gen, alive, comps]
    state,        \* InspectorState: selection, tab and their previous values
    widgets,      \* the DragValue widgets spawned by the last rebuild
    pending,      \* PendingValueChanges.changes
    nextId,       \* history: number of DragValueChanged events queued so far + 1
    applied,      \* history: change id -> number of write-back passes that consumed it
    last,         \* history: what the step that led here did (see NoOp, PassRecord)
    sched,        \* the Update schedule of the running frame (SpecSched only)
    now,          \* Instant::now(), in milliseconds
    input_focus   \* InputFocus: the widget holding it, NoFocus or Dangling

vars ==
    <<world, state, widgets, pending, nextId, applied, last, sched, now,
      input_focus>>

(***************************************************************************)
(* Bounds                                                                  *)
(***************************************************************************)
\* DragValueChanged events queued in one behaviour
MaxChanges == 2
\* times a slot of the store is reused by a spawn
MaxGen == 1
\* frames run by the schedule specification
MaxFrames == 2

(***************************************************************************)
(* Reflected values (bevy_reflect's PartialReflect, as the code matches on *)
(* it: reflect_ref / reflect_mut and try_downcast).                        *)
(***************************************************************************)
Node(shape, ty, val, variant, vtype, names, fields, len) ==
    [shape |-> shape, ty |-> ty, val |-> val, variant |-> variant,
     vtype |-> vtype, names |-> names, fields |-> fields, len |-> len]

Opaque(ty, val)         == Node("Opaque", ty, val, "", "", <<>>, <<>>, 0)
Struct(ty, names, fs)   == Node("Struct", ty, 0, "", "", names, fs, 0)
TupleStruct(ty, fs)     == Node("TupleStruct", ty, 0, "", "", <<>>, fs, 0)
Tuple(fs)               == Node("Tuple", "tuple", 0, "", "", <<>>, fs, 0)
EnumOf(ty, variant, vtype, names, fs) ==
    Node("Enum", ty, 0, variant, vtype, names, fs, 0)
ListOf(ty, len)         == Node("List", ty, 0, "", "", <<>>, <<>>, len)

\* the absence of a component on an entity
NoComponent == Node("None", "", 0, "", "", <<>>, <<>>, 0)

NumericKinds == {"f32", "f64", "i32", "i64", "u32", "u64"}

(***************************************************************************)
(* FieldPath and FieldPathSegment                                          *)
(***************************************************************************)
Named(n) == [tag |-> "Named", name |-> n, idx |-> 0]
Index(i) == [tag |-> "Index", name |-> "", idx |-> i]

\* Entity: an index with the generation it was spawned at
Entity(index, gen) == [index |-> index, gen |-> gen]

FieldPath(entity, type_id, path) ==
    [entity |-> entity, component_type_id |-> type_id, path |-> path]

(***************************************************************************)
(* Number formatting and casts                                             *)
(***************************************************************************)
Abs(v) == IF v < 0 THEN -v ELSE v

\* Every near number is below FarBase in magnitude, as tenths and as units
FarBase == 1000000000

\* The landmarks, increasing; a negative landmark is -Far(k):
\*   Far(1) = 2^31 - 1    Far(2) = 2^31        Far(3) = 2^32 - 1
\*   Far(4) = 2^32        Far(5) = 2^53        Far(6) = 2^53 + 1
\*   Far(7) = 2^53 + 2    Far(8) = 2^63 - 1    Far(9) = 2^63
\*   Far(10) = 2^64 - 1   Far(11) = 2^64       Far(12): above 2^64, up to
\*   infinity
Far(k) == FarBase + k

IsFar(v) == Abs(v) > FarBase

I32_MAX == Far(1)
I32_MIN == -Far(2)
U32_MAX == Far(3)
I64_MAX == Far(8)
I64_MIN == -Far(9)
U64_MAX == Far(10)
Huge    == Far(12)

\* integer -> f64 `as` cast of a landmark: round to nearest, ties to even.
\* 2^53 + 1, 2^63 - 1 and 2^64 - 1 are not f64 numbers.
RoundF64(n) ==
    LET m == Abs(n)
        r == CASE m = Far(6) -> Far(5)
               [] m = Far(8) -> Far(9)
               [] m = Far(10) -> Far(11)
               [] OTHER -> m
    IN  IF n < 0 THEN -r ELSE r

\* f64 -> f32 `as` cast of a landmark: round to nearest, ties to even; a
\* magnitude above the f32 range becomes infinity.  A near number keeps
\* its tenths.
RoundF32(v) ==
    LET m == Abs(v)
        r == CASE m = Far(1) -> Far(2)
               [] m = Far(3) -> Far(4)
               [] m = Far(7) -> Far(5)
               [] OTHER -> m
    IN  IF v < 0 THEN -r ELSE r

\* the saturation of an f64 -> integer `as` cast at the ends of the range
Saturate(n, lo, hi) == IF n < lo THEN lo ELSE IF n > hi THEN hi ELSE n

\* f64 -> integer `as` cast: the fractional part is dropped (toward zero);
\* a landmark is a whole number
Trunc(v) ==
    IF IsFar(v) THEN v
    ELSE IF v >= 0 THEN v \div 10 ELSE -((-v) \div 10)

\* f64::max(0.0)
Max0(v) == IF v < 0 THEN 0 ELSE v

\* Text is a sequence of characters
DigitChars == <<"0", "1", "2", "3", "4", "5", "6", "7", "8", "9">>

IsDigit(c) == \E d \in DOMAIN DigitChars : DigitChars[d] = c

DigitVal(c) == (CHOOSE d \in DOMAIN DigitChars : DigitChars[d] = c) - 1

RECURSIVE Digits(_)

\* the decimal digits of a natural number
Digits(n) ==
    IF n < 10 THEN << DigitChars[n + 1] >>
    ELSE Digits(n \div 10) \o << DigitChars[(n % 10) + 1] >>

RECURSIVE Zeros(_)

Zeros(n) == IF n <= 0 THEN <<>> ELSE <<"0">> \o Zeros(n - 1)

\* the run of digits a landmark prints as, carried as one character
FarText(k) == "#" \o ToString(k)

\* format!("{:.prec$}", v): "-" for a negative value, the whole part, and
\* after the point the tenths digit followed by zeros; with no decimals the
\* whole part is rounded to nearest, ties to even
FormatPrec(v, prec) ==
    LET m     == Abs(v)
        whole == m \div 10
        tenth == m % 10
        up    == tenth > 5 \/ (tenth = 5 /\ whole % 2 = 1)
    IN  (IF v < 0 THEN <<"-">> ELSE <<>>)
        \o (IF IsFar(v) THEN << FarText(m - FarBase) >>
            ELSE IF prec = 0 THEN Digits(IF up THEN whole + 1 ELSE whole)
            ELSE Digits(whole))
        \o (IF prec = 0 THEN <<>>
            ELSE <<".">> \o (IF IsFar(v) THEN <<"0">> ELSE Digits(tenth))
                 \o Zeros(prec - 1))

\* format!("{:.2}", v)
Format2(v) == FormatPrec(v, 2)

\* the position of the first character of cs that is in set, 0 for none
FirstIn(cs, set) ==
    IF \E i \in DOMAIN cs : cs[i] \in set
    THEN CHOOSE i \in DOMAIN cs :
            cs[i] \in set /\ \A j \in 1..(i - 1) : cs[j] \notin set
    ELSE 0

AllDigits(cs) == \A i \in DOMAIN cs : IsDigit(cs[i])

RECURSIVE IntVal(_)

\* the number a run of digits spells
IntVal(cs) ==
    IF cs = <<>> THEN 0
    ELSE IntVal(SubSeq(cs, 1, Len(cs) - 1)) * 10 + DigitVal(cs[Len(cs)])

RECURSIVE StripZeros(_)

StripZeros(cs) ==
    IF cs # <<>> /\ Head(cs) = "0" THEN StripZeros(Tail(cs)) ELSE cs

\* str::parse::<f64>(): an optional sign, digits with an optional point (at
\* least one digit), an optional exponent of e or E, an optional sign and
\* at least one digit.  The value is carried to the tenth.  A magnitude of
\* ten or more digits of tenths is carried as Huge: the texts of the model
\* spell such a number only with an exponent of twenty or more.
ParseF64(cs) ==
    LET signed == cs # <<>> /\ Head(cs) \in {"+", "-"}
        neg    == cs # <<>> /\ Head(cs) = "-"
        body   == IF signed THEN Tail(cs) ELSE cs
        ePos   == FirstIn(body, {"e", "E"})
        mant   == IF ePos = 0 THEN body ELSE SubSeq(body, 1, ePos - 1)
        expo   == IF ePos = 0 THEN <<>> ELSE SubSeq(body, ePos + 1, Len(body))
        eSigned == expo # <<>> /\ Head(expo) \in {"+", "-"}
        eNeg   == expo # <<>> /\ Head(expo) = "-"
        eDigits == IF eSigned THEN Tail(expo) ELSE expo
        pPos   == FirstIn(mant, {"."})
        whole  == IF pPos = 0 THEN mant ELSE SubSeq(mant, 1, pPos - 1)
        frac   == IF pPos = 0 THEN <<>> ELSE SubSeq(mant, pPos + 1, Len(mant))
        far    == Len(whole) = 1 /\ whole[1] \in {FarText(k) : k \in 1..12}
        wellFormed ==
            /\ \/ AllDigits(whole) /\ AllDigits(frac)
                      /\ Len(whole) + Len(frac) >= 1
               \/ far /\ AllDigits(frac)
            /\ ePos # 0 => (eDigits # <<>> /\ AllDigits(eDigits))
        e      == IF ePos = 0 THEN 0
                  ELSE IF Len(StripZeros(eDigits)) > 2 THEN 999
                  ELSE IntVal(eDigits)
        keep   == IF eNeg THEN Len(whole) - e + 1 ELSE Len(whole) + e + 1
        all    == whole \o frac
        kept   == IF keep <= 0 THEN <<>>
                  ELSE IF keep <= Len(all) THEN SubSeq(all, 1, keep)
                  ELSE all \o Zeros(keep - Len(all))
        sig    == StripZeros(kept)
        mag    == IF far
                  THEN FarBase + (CHOOSE k \in 1..12 : FarText(k) = whole[1])
                  ELSE IF Len(sig) > 9 THEN Huge ELSE IntVal(sig)
    IN  IF ~wellFormed THEN [ok |-> FALSE, v |-> 0]
        ELSE [ok |-> TRUE, v |-> IF neg THEN -mag ELSE mag]

\* format!("{:?}", o) of an opaque scalar
DebugFormat(r) ==
    CASE r.ty \in {"f32", "f64"} ->
            (IF r.val < 0 THEN "-" ELSE "") \o ToString(Abs(r.val) \div 10)
                \o "." \o ToString(Abs(r.val) % 10)
      [] r.ty = "bool" -> IF r.val = 1 THEN "true" ELSE "false"
      [] OTHER -> ToString(r.val)

(***************************************************************************)
(* Semantic naming overlay (semantic_names.rs)                             *)
(***************************************************************************)
XY   == <<"x", "y">>
XYZ  == <<"x", "y", "z">>
XYZW == <<"x", "y", "z", "w">>

\* Mutant: only the two-component vectors are registered
SemanticFieldNames_vec2_only ==
    [t \in {"Vec2", "IVec2", "UVec2", "DVec2"} |-> XY]

\* SemanticFieldNames::new: the registry pre-populated with the math types
SemanticFieldNames_new ==
    [t \in {"Vec2", "Vec3", "Vec4", "IVec2", "IVec3", "IVec4", "UVec2",
            "UVec3", "UVec4", "DVec2", "DVec3", "DVec4", "Quat"} |->
        CASE t \in {"Vec2", "IVec2", "UVec2", "DVec2"} -> XY
          [] t \in {"Vec3", "IVec3", "UVec3", "DVec3"} -> XYZ
          [] OTHER -> XYZW]

NoName == [some |-> FALSE, s |-> ""]
SomeName(s) == [some |-> TRUE, s |-> s]

\* Mutant: the lookup answers differently from one call to the next (the
\* registered name on every other call)
get_field_name_by_turn(overrides, type_id, index) ==
    IF /\ type_id \in DOMAIN overrides /\ index < Len(overrides[type_id])
       /\ nextId % 2 = 1
    THEN SomeName(overrides[type_id][index + 1])
    ELSE NoName

\* Mutant: an index beyond the registered names takes the last of them
get_field_name_clamped(overrides, type_id, index) ==
    IF type_id \in DOMAIN overrides /\ overrides[type_id] # <<>>
    THEN SomeName(overrides[type_id][
             IF index < Len(overrides[type_id]) THEN index + 1
             ELSE Len(overrides[type_id])])
    ELSE NoName

\* self.overrides.get(&type_id)?.get(index).copied()
get_field_name(overrides, type_id, index) ==
    IF type_id \in DOMAIN overrides /\ index < Len(overrides[type_id])
    THEN SomeName(overrides[type_id][index + 1])
    ELSE NoName

(***************************************************************************)
(* Reflective traversal (detail_panel.rs)                                  *)
(***************************************************************************)
NoNumber == [some |-> FALSE, v |-> 0]

\* `*val as f64` of an integer leaf
IntAsF64(n) == IF IsFar(n) THEN RoundF64(n) ELSE n * 10

\* Mutant: a bool is taken for a number too
try_extract_numeric_or_bool(reflected) ==
    IF reflected.ty \in {"f32", "f64", "bool"}
    THEN [some |-> TRUE, v |-> reflected.val]
    ELSE IF reflected.ty \in {"i32", "i64", "u32", "u64"}
         THEN [some |-> TRUE, v |-> IntAsF64(reflected.val)]
         ELSE NoNumber

\* Mutant: only the two float kinds are recognised
try_extract_numeric_floats_only(reflected) ==
    IF reflected.ty \in {"f32", "f64"}
    THEN [some |-> TRUE, v |-> reflected.val]
    ELSE NoNumber

\* The value as f64 when the concrete type is one of the six numeric kinds
try_extract_numeric(reflected) ==
    CASE reflected.ty \in {"f32", "f64"} -> [some |-> TRUE, v |-> reflected.val]
      [] reflected.ty \in {"i32", "i64", "u32", "u64"} ->
            [some |-> TRUE, v |-> IntAsF64(reflected.val)]
      [] OTHER -> NoNumber

RECURSIVE format_simple_value(_)
RECURSIVE JoinParts(_, _)

\* parts.join(", ") over the fields from position i on
JoinParts(fs, i) ==
    IF i > Len(fs) THEN ""
    ELSE format_simple_value(fs[i]).s
            \o (IF i < Len(fs) THEN ", " ELSE "") \o JoinParts(fs, i + 1)

\* Mutant: a list or an array is a complex value, like a struct
format_simple_value_lists_complex(reflected) ==
    CASE reflected.shape \in {"Struct", "TupleStruct", "Enum", "List", "Array"} ->
            NoName
      [] reflected.shape = "Tuple" ->
            IF /\ Len(reflected.fields) <= 4
               /\ \A i \in 1..Len(reflected.fields) :
                     format_simple_value(reflected.fields[i]).some
            THEN SomeName("(" \o JoinParts(reflected.fields, 1) \o ")")
            ELSE NoName
      [] reflected.shape = "Map" ->
            SomeName("{" \o ToString(reflected.len) \o " entries}")
      [] reflected.shape = "Set" ->
            SomeName("{" \o ToString(reflected.len) \o " items}")
      [] OTHER -> SomeName(DebugFormat(reflected))

\* Some(text) for a value shown inline, None for a complex one
format_simple_value(reflected) ==
    CASE reflected.shape \in {"Struct", "TupleStruct", "Enum"} -> NoName
      [] reflected.shape = "Tuple" ->
            IF /\ Len(reflected.fields) <= 4
               /\ \A i \in 1..Len(reflected.fields) :
                     format_simple_value(reflected.fields[i]).some
            THEN SomeName("(" \o JoinParts(reflected.fields, 1) \o ")")
            ELSE NoName
      [] reflected.shape \in {"List", "Array"} ->
            SomeName("[" \o ToString(reflected.len) \o " items]")
      [] reflected.shape = "Map" ->
            SomeName("{" \o ToString(reflected.len) \o " entries}")
      [] reflected.shape = "Set" ->
            SomeName("{" \o ToString(reflected.len) \o " items}")
      [] OTHER -> SomeName(DebugFormat(reflected))

NotEditable == [some |-> FALSE, numeric_value |-> 0, path |-> <<>>]

\* try_extract_numeric(field_value).map(|num| EditableFieldInfo {..})
EditableFieldInfo(field_value, field_path) ==
    IF try_extract_numeric(field_value).some
    THEN [some |-> TRUE,
          numeric_value |-> try_extract_numeric(field_value).v,
          path |-> field_path]
    ELSE NotEditable

ReflectedField(name, value, indent, editable) ==
    [name |-> name, value |-> value, indent |-> indent, editable |-> editable]

RECURSIVE extract_fields_from_reflect(_, _, _, _)
RECURSIVE StructFields(_, _, _, _, _)
RECURSIVE TupleStructFields(_, _, _, _, _)
RECURSIVE EnumFields(_, _, _)

\* Mutant: the rows of a nested field are pushed before its header row, and
\* at the indent of the header
StructFieldsHeaderLast(s, i, indent, semantic_names, current_path) ==
    IF i > Len(s.fields) THEN <<>>
    ELSE
        LET field_name  == s.names[i]
            field_value == s.fields[i]
            field_path  == Append(current_path, Named(field_name))
            value_str   == format_simple_value(field_value)
            rows ==
                IF value_str.some
                THEN << ReflectedField(field_name, value_str.s, indent,
                            EditableFieldInfo(field_value, field_path)) >>
                ELSE extract_fields_from_reflect(field_value, indent,
                            semantic_names, field_path)
                     \o << ReflectedField(field_name,
                            "[" \o field_value.ty \o "]", indent, NotEditable) >>
        IN  rows \o StructFields(s, i + 1, indent, semantic_names, current_path)

\* the rows of the struct fields from position i on (for i in 0..s.field_len())
StructFields(s, i, indent, semantic_names, current_path) ==
    IF i > Len(s.fields) THEN <<>>
    ELSE
        LET field_name  == s.names[i]
            field_value == s.fields[i]
            field_path  == Append(current_path, Named(field_name))
            value_str   == format_simple_value(field_value)
            rows ==
                IF value_str.some
                THEN << ReflectedField(field_name, value_str.s, indent,
                            EditableFieldInfo(field_value, field_path)) >>
                ELSE << ReflectedField(field_name,
                            "[" \o field_value.ty \o "]", indent, NotEditable) >>
                     \o extract_fields_from_reflect(field_value, indent + 1,
                            semantic_names, field_path)
        IN  rows \o StructFields(s, i + 1, indent, semantic_names, current_path)

\* the rows of the tuple-struct fields from position i on
TupleStructFields(ts, i, indent, semantic_names, current_path) ==
    IF i > Len(ts.fields) THEN <<>>
    ELSE
        LET field_value == ts.fields[i]
            field_path  == Append(current_path, Index(i - 1))
            semantic    == get_field_name(semantic_names, ts.ty, i - 1)
            field_name  == IF semantic.some THEN semantic.s
                           ELSE "." \o ToString(i - 1)
            value_str   == format_simple_value(field_value)
            rows ==
                IF value_str.some
                THEN << ReflectedField(field_name, value_str.s, indent,
                            EditableFieldInfo(field_value, field_path)) >>
                ELSE << ReflectedField(field_name,
                            "[" \o field_value.ty \o "]", indent, NotEditable) >>
                     \o extract_fields_from_reflect(field_value, indent + 1,
                            semantic_names, field_path)
        IN  rows \o TupleStructFields(ts, i + 1, indent, semantic_names,
                        current_path)

\* the payload rows of a tuple or struct variant from position i on
EnumFields(e, i, indent) ==
    IF i > Len(e.fields) THEN <<>>
    ELSE
        LET field_name == IF e.vtype = "Tuple" THEN "." \o ToString(i - 1)
                          ELSE e.names[i]
            value_str  == format_simple_value(e.fields[i])
            rows == IF value_str.some
                    THEN << ReflectedField(field_name, value_str.s, indent + 1,
                                NotEditable) >>
                    ELSE <<>>
        IN  rows \o EnumFields(e, i + 1, indent)

\* The rows pushed onto `fields` by one call
extract_fields_from_reflect(reflected, indent, semantic_names, current_path) ==
    CASE reflected.shape = "Struct" ->
            StructFields(reflected, 1, indent, semantic_names, current_path)
      [] reflected.shape = "TupleStruct" ->
            TupleStructFields(reflected, 1, indent, semantic_names, current_path)
      [] reflected.shape = "Enum" ->
            << ReflectedField("variant", reflected.variant, indent, NotEditable) >>
            \o (IF reflected.vtype = "Unit" THEN <<>>
                ELSE EnumFields(reflected, 1, indent))
      [] OTHER ->
            IF format_simple_value(reflected).some
            THEN << ReflectedField("value", format_simple_value(reflected).s,
                        indent, NotEditable) >>
            ELSE <<>>

(***************************************************************************)
(* Write-back engine (drag_value.rs)                                       *)
(***************************************************************************)
\* Mutant: the value is written before the kind is known to be numeric
apply_value_unchecked(reflected, new_value) ==
    IF reflected.ty \in {"f32", "f64"}
    THEN [ok |-> TRUE, v |-> [reflected EXCEPT !.val = new_value]]
    ELSE [ok |-> reflected.ty \in {"i32", "i64", "u32", "u64"},
          v  |-> [reflected EXCEPT !.val =
                    IF reflected.ty \in {"u32", "u64"}
                    THEN Trunc(Max0(new_value)) ELSE Trunc(new_value)]]

\* Mutant: the integer casts neither saturate nor raise a negative to zero
apply_value_wrapping(reflected, new_value) ==
    CASE reflected.ty \in {"f32", "f64"} ->
            [ok |-> TRUE, v |-> [reflected EXCEPT !.val = new_value]]
      [] reflected.ty \in {"i32", "i64", "u32", "u64"} ->
            [ok |-> TRUE, v |-> [reflected EXCEPT !.val = Trunc(new_value)]]
      [] OTHER -> [ok |-> FALSE, v |-> reflected]

\* Applies a numeric value to a reflected field: [ok, v] is the returned
\* bool and the field as the call leaves it.
apply_value_to_partial_reflect(reflected, new_value) ==
    CASE reflected.ty = "f32" ->
            [ok |-> TRUE, v |-> [reflected EXCEPT !.val = RoundF32(new_value)]]
      [] reflected.ty = "f64" ->
            [ok |-> TRUE, v |-> [reflected EXCEPT !.val = new_value]]
      [] reflected.ty = "i32" ->
            [ok |-> TRUE, v |-> [reflected EXCEPT !.val =
                Saturate(Trunc(new_value), I32_MIN, I32_MAX)]]
      [] reflected.ty = "i64" ->
            [ok |-> TRUE, v |-> [reflected EXCEPT !.val =
                Saturate(Trunc(new_value), I64_MIN, I64_MAX)]]
      [] reflected.ty = "u32" ->
            [ok |-> TRUE, v |-> [reflected EXCEPT !.val =
                Saturate(Trunc(Max0(new_value)), 0, U32_MAX)]]
      [] reflected.ty = "u64" ->
            [ok |-> TRUE, v |-> [reflected EXCEPT !.val =
                Saturate(Trunc(Max0(new_value)), 0, U64_MAX)]]
      [] OTHER -> [ok |-> FALSE, v |-> reflected]

\* s.field_mut(name): the position of the field called name, 0 for None
FieldByName(s, name) ==
    IF \E i \in 1..Len(s.names) : s.names[i] = name
    THEN CHOOSE i \in 1..Len(s.names) : s.names[i] = name
    ELSE 0

\* Mutant: the index is taken as 1-based
FieldByIndexOffByOne(t, idx) == IF idx + 1 < Len(t.fields) THEN idx + 2 ELSE 0

\* ts.field_mut(idx) / t.field_mut(idx): the position, 0 for None
FieldByIndex(t, idx) == IF idx < Len(t.fields) THEN idx + 1 ELSE 0

RECURSIVE set_field_value_any_index(_, _, _)

\* Mutant: an Index step is also taken on a struct (s.field_at_mut(idx))
set_field_value_any_index(reflected, path, new_value) ==
    IF path = <<>> THEN apply_value_to_partial_reflect(reflected, new_value)
    ELSE
        LET segment == Head(path)
            at == CASE reflected.shape = "Struct" /\ segment.tag = "Named" ->
                        FieldByName(reflected, segment.name)
                    [] reflected.shape \in {"Struct", "TupleStruct", "Tuple"}
                            /\ segment.tag = "Index" ->
                        FieldByIndex(reflected, segment.idx)
                    [] OTHER -> 0
        IN  IF at = 0 THEN [ok |-> FALSE, v |-> reflected]
            ELSE
                LET sub == set_field_value_any_index(reflected.fields[at],
                                Tail(path), new_value)
                IN  [ok |-> sub.ok,
                     v  |-> [reflected EXCEPT !.fields[at] = sub.v]]

RECURSIVE set_field_value_recursive(_, _, _)

\* Navigates a field path and sets the value: [ok, v] is the returned bool
\* and the reflected value as the call leaves it.
set_field_value_recursive(reflected, path, new_value) ==
    IF path = <<>> THEN apply_value_to_partial_reflect(reflected, new_value)
    ELSE
        LET segment   == Head(path)
            remaining == Tail(path)
            at == CASE reflected.shape = "Struct" /\ segment.tag = "Named" ->
                        FieldByName(reflected, segment.name)
                    [] reflected.shape = "TupleStruct" /\ segment.tag = "Index" ->
                        FieldByIndex(reflected, segment.idx)
                    [] reflected.shape = "Tuple" /\ segment.tag = "Index" ->
                        FieldByIndex(reflected, segment.idx)
                    [] OTHER -> 0
        IN  IF at = 0 THEN [ok |-> FALSE, v |-> reflected]
            ELSE
                LET sub == set_field_value_recursive(reflected.fields[at],
                                remaining, new_value)
                IN  [ok |-> sub.ok,
                     v  |-> [reflected EXCEPT !.fields[at] = sub.v]]

(***************************************************************************)
(* The host store.  An entity lives in a slot; a despawned slot is reused  *)
(* by a later spawn under the next generation, and an Entity names a slot  *)
(* together with the generation it was spawned at.                         *)
(***************************************************************************)
\* the component types, in the order an inspection lists them
TypeIds == <<"Transform", "Stats", "Probe">>

TypeIdSet == {TypeIds[i] : i \in 1..Len(TypeIds)}

TransformValue ==
    Struct("Transform", <<"translation", "visible">>,
        << TupleStruct("Vec3",
               << Opaque("f32", 10), Opaque("f32", 20), Opaque("f32", 30) >>),
           Opaque("bool", 1) >>)

StatsValue ==
    Struct("Stats", <<"hp", "range">>,
        << Opaque("u32", 7),
           Tuple(<< Opaque("f64", 15), Opaque("i64", 4) >>) >>)

Template(type_id) ==
    CASE type_id = "Transform" -> TransformValue
      [] type_id = "Stats" -> StatsValue
      [] OTHER -> NoComponent

\* slot 1 carries a Transform and a Stats, slot 2 only a Transform
InitialWorld ==
    << [gen |-> 0, alive |-> TRUE,
        comps |-> [t \in TypeIdSet |-> Template(t)]],
       [gen |-> 0, alive |-> TRUE,
        comps |-> [t \in TypeIdSet |->
                     IF t = "Transform" THEN Template(t) ELSE NoComponent]] >>

Slots == DOMAIN InitialWorld

\* world.entities().contains(entity)
contains(w, entity) ==
    /\ entity.index \in DOMAIN w
    /\ w[entity.index].alive
    /\ w[entity.index].gen = entity.gen

\* get_reflected_component_mut / get_reflected_component_ref: the outcome
\* of resolving (entity, type_id) in the store
get_reflected_component(w, entity, type_id) ==
    IF ~contains(w, entity) THEN "ObjectNotFound"
    ELSE IF \/ type_id \notin DOMAIN w[entity.index].comps
            \/ w[entity.index].comps[type_id] = NoComponent
         THEN "ComponentNotFound"
         ELSE "Ok"

LiveEntities(w) == {Entity(i, w[i].gen) : i \in {j \in DOMAIN w : w[j].alive}}

(***************************************************************************)
(* InspectorState (state.rs) and the DragValue widgets                     *)
(***************************************************************************)
None == Entity(0, 0)

InspectorState_default ==
    [selected_entity |-> None, active_tab |-> "Components",
     previous_selection |-> None, previous_tab |-> "Components"]

NoBound == [some |-> FALSE, v |-> 0]

\* InputFocus(None), and InputFocus(Some(e)) for an entity e that has been
\* despawned; a widget holding the focus is named by its position
NoFocus == 0
Dangling == -1

DragValueDragState_default ==
    [dragging |-> FALSE, start_value |-> 0, editing |-> FALSE,
     edit_buffer |-> <<>>, last_click_time |-> NoBound, original_value |-> 0]

\* The DragValue bundle spawned for one editable row, with its Text child
DragValueWidget(entity, type_id, editable) ==
    [field_path |-> FieldPath(entity, type_id, editable.path),
     drag_speed |-> 1, precision |-> 2, min |-> NoBound, max |-> NoBound,
     drag_state |-> DragValueDragState_default,
     text |-> Format2(editable.numeric_value)]

RECURSIVE RowWidgets(_, _, _, _)

\* the widgets of the editable rows of one component card, from row i on
RowWidgets(fields, i, entity, type_id) ==
    IF i > Len(fields) THEN <<>>
    ELSE (IF fields[i].editable.some
          THEN << DragValueWidget(entity, type_id, fields[i].editable) >>
          ELSE <<>>)
         \o RowWidgets(fields, i + 1, entity, type_id)

RECURSIVE CardWidgets(_, _, _)

\* spawn_components_tab_exclusive: the widgets of the component cards of
\* entity, from component type i on
CardWidgets(w, entity, i) ==
    IF i > Len(TypeIds) THEN <<>>
    ELSE (IF get_reflected_component(w, entity, TypeIds[i]) = "Ok"
          THEN RowWidgets(
                   extract_fields_from_reflect(
                       w[entity.index].comps[TypeIds[i]], 0,
                       SemanticFieldNames_new, <<>>),
                   1, entity, TypeIds[i])
          ELSE <<>>)
         \o CardWidgets(w, entity, i + 1)

spawn_components_tab_exclusive(w, entity) == CardWidgets(w, entity, 1)

(***************************************************************************)
(* DragValueChanged and its observers                                      *)
(***************************************************************************)
\* the f64 values a change carries: -3.0 and 5.9
Values == {-30, 59}

\* `id` is history: the position of the event among all events triggered
DragValueChanged(source, field_path, new_value, id) ==
    [source |-> source, field_path |-> field_path, new_value |-> new_value,
     id |-> id]

\* Observer: the Text child of the source widget shows the new value
update_drag_value_display(ws, ev) ==
    IF ev.source \in DOMAIN ws
    THEN [ws EXCEPT ![ev.source].text =
                FormatPrec(ev.new_value, ws[ev.source].precision)]
    ELSE ws

\* Mutant: the event is inserted at the front of the queue
queue_value_change_front(changes, ev) == <<ev>> \o changes

\* Observer: pending.changes.push(trigger.event().clone())
queue_value_change(changes, ev) == Append(changes, ev)

NoOp == [op |-> "none", pre |-> <<>>, batch |-> <<>>, warned |-> {}]

\* commands.trigger(DragValueChanged {..}): both observers run
TriggerDragValueChanged(source, field_path, new_value) ==
    /\ nextId <= MaxChanges
    /\ LET ev == DragValueChanged(source, field_path, new_value, nextId)
       IN  /\ widgets' = update_drag_value_display(widgets, ev)
           /\ pending' = queue_value_change(pending, ev)
    /\ nextId' = nextId + 1
    /\ last' = NoOp
    /\ UNCHANGED <<world, state, applied, sched, now, input_focus>>

\* A widget emits a change for its own field path (a drag move, or Enter
\* on a text edit), with a value among vals
WidgetChangeOf(vals) ==
    \E w \in DOMAIN widgets, new_value \in vals :
        TriggerDragValueChanged(w, widgets[w].field_path, new_value)

WidgetChange == WidgetChangeOf(Values)

\* Locators a host application can put into a DragValueChanged of its own
\* (the event and FieldPath are public): an entity that never existed, a
\* component the entity lacks, a step that does not resolve, a bool leaf,
\* a leaf inside a tuple.
HostPaths ==
    { FieldPath(Entity(3, 0), "Transform", << Named("translation"), Index(0) >>),
      FieldPath(Entity(2, 0), "Stats", << Named("hp") >>),
      FieldPath(Entity(1, 0), "Transform", << Named("translation"), Index(3) >>),
      FieldPath(Entity(1, 0), "Transform", << Named("visible") >>),
      FieldPath(Entity(1, 0), "Stats", << Named("range"), Index(1) >>) }

\* the widget entities are 1..Len(widgets); 0 is an entity without DragValue
HostChange ==
    \E field_path \in HostPaths :
        TriggerDragValueChanged(0, field_path, 59)

(***************************************************************************)
(* The DragValue observers of pointer and keyboard events                  *)
(***************************************************************************)
\* Double-click detection threshold (in milliseconds)
DOUBLE_CLICK_THRESHOLD_MS == 300

\* milliseconds on the clock of a behaviour
MaxTime == 400
\* characters an edit buffer grows to by typing
MaxBuffer == 2

\* what the step that led here was: an observer run for widget w on an
\* event carrying input
Observed(op, w, input) ==
    [op |-> op, pre |-> <<>>, batch |-> <<>>, warned |-> {}, widget |-> w,
     input |-> input]

\* children.iter().find_map(.. text.0.parse::<f64>().ok()).unwrap_or(0.0)
TextValue(text) == IF ParseF64(text).ok THEN ParseF64(text).v ELSE 0

\* start_value + delta_value in f64: a landmark absorbs a near number
AddF64(a, b) == IF IsFar(a) THEN a ELSE IF IsFar(b) THEN b ELSE a + b

\* Mutant: the upper bound is not applied
ConstrainMinOnly(v, min, max) ==
    IF min.some /\ v < min.v THEN min.v ELSE v

\* Mutant: the bounds are applied the other way round
ConstrainSwapped(v, min, max) ==
    LET lowered == IF min.some /\ v > min.v THEN min.v ELSE v
    IN  IF max.some /\ lowered < max.v THEN max.v ELSE lowered

\* new_value.max(min) if min is Some, then .min(max) if max is Some
Constrain(v, min, max) ==
    LET raised == IF min.some /\ v < min.v THEN min.v ELSE v
    IN  IF max.some /\ raised > max.v THEN max.v ELSE raised

\* Mutant: the widget leaves edit mode with its buffer kept
exit_edit_mode_keep_buffer(drag_state) ==
    [drag_state |-> [drag_state EXCEPT !.editing = FALSE],
     input_focus |-> NoFocus]

\* Mutant: the buffer is cleared and the widget stays in edit mode
exit_edit_mode_stay(drag_state) ==
    [drag_state |-> [drag_state EXCEPT !.edit_buffer = <<>>],
     input_focus |-> NoFocus]

\* Mutant: the widget leaves edit mode and the input focus stays
exit_edit_mode_keep_focus(drag_state) ==
    [drag_state |-> [drag_state EXCEPT !.editing = FALSE,
                                       !.edit_buffer = <<>>],
     input_focus |-> input_focus]

\* exit_edit_mode: the drag state and the input focus it leaves
exit_edit_mode(drag_state) ==
    [drag_state |-> [drag_state EXCEPT !.editing = FALSE,
                                       !.edit_buffer = <<>>],
     input_focus |-> NoFocus]

\* Observer of DragValueEditModeChanged: the text of widget e shows the
\* buffer with the cursor when editing, the parsed buffer when not
update_edit_mode_display(ws, e, editing) ==
    IF e \notin DOMAIN ws THEN ws
    ELSE IF editing
         THEN [ws EXCEPT ![e].text = ws[e].drag_state.edit_buffer \o <<"|">>]
         ELSE IF ParseF64(ws[e].drag_state.edit_buffer).ok
              THEN [ws EXCEPT ![e].text =
                        FormatPrec(ParseF64(ws[e].drag_state.edit_buffer).v,
                                   ws[e].precision)]
              ELSE ws

\* Mutant: the threshold is inclusive
IsDoubleClickInclusive(drag_state, t) ==
    /\ drag_state.last_click_time.some
    /\ t - drag_state.last_click_time.v <= DOUBLE_CLICK_THRESHOLD_MS

\* last_click_time.map(|last| now.duration_since(last) < threshold)
\*     .unwrap_or(false)
IsDoubleClick(drag_state, t) ==
    /\ drag_state.last_click_time.some
    /\ t - drag_state.last_click_time.v < DOUBLE_CLICK_THRESHOLD_MS

\* Instant::now() moves on by one of steps between two events
AdvanceClockBy(steps) ==
    \E dt \in steps :
        /\ now + dt <= MaxTime
        /\ now' = now + dt
        /\ last' = NoOp
        /\ UNCHANGED <<world, state, widgets, pending, nextId, applied, sched,
                       input_focus>>

\* Mutant: a successful double click keeps the time of the last click
drag_value_on_click_no_reset(w) ==
    LET drag_state == widgets[w].drag_state
    IN  /\ IF IsDoubleClick(drag_state, now) /\ ~drag_state.editing
           THEN LET current_value == TextValue(widgets[w].text)
                    entered == [drag_state EXCEPT
                        !.editing = TRUE,
                        !.original_value = current_value,
                        !.edit_buffer =
                            FormatPrec(current_value, widgets[w].precision)]
                IN  /\ widgets' = update_edit_mode_display(
                            [widgets EXCEPT ![w].drag_state = entered], w, TRUE)
                    /\ input_focus' = w
           ELSE /\ widgets' = [widgets EXCEPT ![w].drag_state.last_click_time =
                                    [some |-> TRUE, v |-> now]]
                /\ UNCHANGED input_focus
        /\ last' = Observed("click", w, now)
        /\ UNCHANGED <<world, state, pending, nextId, applied, sched, now>>

\* Observer of Pointer<Click> on widget w
drag_value_on_click(w) ==
    LET drag_state == widgets[w].drag_state
    IN  /\ IF IsDoubleClick(drag_state, now) /\ ~drag_state.editing
           THEN LET current_value == TextValue(widgets[w].text)
                    entered == [drag_state EXCEPT
                        !.editing = TRUE,
                        !.original_value = current_value,
                        !.edit_buffer =
                            FormatPrec(current_value, widgets[w].precision),
                        !.last_click_time = NoBound]
                IN  /\ widgets' = update_edit_mode_display(
                            [widgets EXCEPT ![w].drag_state = entered], w, TRUE)
                    /\ input_focus' = w
           ELSE /\ widgets' = [widgets EXCEPT ![w].drag_state.last_click_time =
                                    [some |-> TRUE, v |-> now]]
                /\ UNCHANGED input_focus
        /\ last' = Observed("click", w, now)
        /\ UNCHANGED <<world, state, pending, nextId, applied, sched, now>>

\* Mutant: a drag starts also on a widget in edit mode
drag_value_on_drag_start_always(w) ==
    /\ widgets' = [widgets EXCEPT
                       ![w].drag_state.dragging = TRUE,
                       ![w].drag_state.start_value = TextValue(widgets[w].text)]
    /\ last' = Observed("drag_start", w, <<>>)
    /\ UNCHANGED <<world, state, pending, nextId, applied, sched, now,
                   input_focus>>

\* Observer of Pointer<DragStart> on widget w
drag_value_on_drag_start(w) ==
    /\ widgets' = IF widgets[w].drag_state.editing THEN widgets
                  ELSE [widgets EXCEPT
                           ![w].drag_state.dragging = TRUE,
                           ![w].drag_state.start_value =
                               TextValue(widgets[w].text)]
    /\ last' = Observed("drag_start", w, <<>>)
    /\ UNCHANGED <<world, state, pending, nextId, applied, sched, now,
                   input_focus>>

\* Mutant: the observer writes the new value into the store at once
drag_value_on_drag_eager(w, delta_x) ==
    LET field_path == widgets[w].field_path
        index == field_path.entity.index
        type_id == field_path.component_type_id
        new_value == AddF64(widgets[w].drag_state.start_value,
                            delta_x * widgets[w].drag_speed)
    IN  /\ widgets[w].drag_state.dragging
        /\ get_reflected_component(world, field_path.entity, type_id) = "Ok"
        /\ world' = [world EXCEPT ![index].comps[type_id] =
                        set_field_value_recursive(world[index].comps[type_id],
                            field_path.path, new_value).v]
        /\ last' = Observed("drag", w, delta_x)
        /\ UNCHANGED <<state, widgets, pending, nextId, applied, sched, now,
                       input_focus>>

\* Mutant: a move emits a change whether or not a drag has started
drag_value_on_drag_always(w, delta_x) ==
    LET new_value == Constrain(
            AddF64(widgets[w].drag_state.start_value,
                   delta_x * widgets[w].drag_speed),
            widgets[w].min, widgets[w].max)
        ev == DragValueChanged(w, widgets[w].field_path, new_value, nextId)
    IN  /\ nextId <= MaxChanges
        /\ widgets' = update_drag_value_display(widgets, ev)
        /\ pending' = queue_value_change(pending, ev)
        /\ nextId' = nextId + 1
        /\ last' = Observed("drag", w, delta_x)
        /\ UNCHANGED <<world, state, applied, sched, now, input_focus>>

\* Mutant: the move is added to the value the widget displays
drag_value_on_drag_from_text(w, delta_x) ==
    /\ IF widgets[w].drag_state.dragging
       THEN LET delta_value == delta_x * widgets[w].drag_speed
                new_value == Constrain(
                    AddF64(TextValue(widgets[w].text), delta_value),
                    widgets[w].min, widgets[w].max)
                ev == DragValueChanged(w, widgets[w].field_path, new_value,
                                       nextId)
            IN  /\ nextId <= MaxChanges
                /\ widgets' = update_drag_value_display(widgets, ev)
                /\ pending' = queue_value_change(pending, ev)
                /\ nextId' = nextId + 1
       ELSE UNCHANGED <<widgets, pending, nextId>>
    /\ last' = Observed("drag", w, delta_x)
    /\ UNCHANGED <<world, state, applied, sched, now, input_focus>>

\* Observer of Pointer<Drag> on widget w, the pointer delta_x from the
\* place the drag started
drag_value_on_drag(w, delta_x) ==
    /\ IF widgets[w].drag_state.dragging
       THEN LET delta_value == delta_x * widgets[w].drag_speed
                new_value == Constrain(
                    AddF64(widgets[w].drag_state.start_value, delta_value),
                    widgets[w].min, widgets[w].max)
                ev == DragValueChanged(w, widgets[w].field_path, new_value,
                                       nextId)
            IN  /\ nextId <= MaxChanges
                /\ widgets' = update_drag_value_display(widgets, ev)
                /\ pending' = queue_value_change(pending, ev)
                /\ nextId' = nextId + 1
       ELSE UNCHANGED <<widgets, pending, nextId>>
    /\ last' = Observed("drag", w, delta_x)
    /\ UNCHANGED <<world, state, applied, sched, now, input_focus>>

\* Observer of Pointer<DragEnd> on widget w
drag_value_on_drag_end(w) ==
    /\ widgets' = [widgets EXCEPT ![w].drag_state.dragging = FALSE]
    /\ last' = Observed("drag_end", w, <<>>)
    /\ UNCHANGED <<world, state, pending, nextId, applied, sched, now,
                   input_focus>>

\* Mutant: one valid character is enough for the whole text to be taken
ValidKeyTextAny(c) ==
    \E i \in DOMAIN c : IsDigit(c[i]) \/ c[i] \in {".", "-", "e", "E", "+"}

\* c.chars().all(|ch| ch.is_ascii_digit() || one of . - e E +)
ValidKeyText(c) ==
    \A i \in DOMAIN c : IsDigit(c[i]) \/ c[i] \in {".", "-", "e", "E", "+"}

\* Mutant: Enter commits 0.0 for a buffer that is not a number
CommitValueOrZero(buffer) == [ok |-> TRUE, v |-> TextValue(buffer)]

\* if let Ok(new_value) = drag_state.edit_buffer.parse::<f64>()
CommitValue(buffer) == ParseF64(buffer)

\* Observer of FocusedInput<KeyboardInput>: key is "Enter", "Escape",
\* "Backspace", "Character" with its text c, or any other key
drag_value_on_keyboard_input(pressed, key, c) ==
    LET entity == input_focus
    IN  /\ entity \in DOMAIN widgets
        /\ last' = Observed(key, entity, <<pressed, c>>)
        /\ UNCHANGED <<world, state, applied, sched, now>>
        /\ IF ~pressed \/ ~widgets[entity].drag_state.editing
           THEN UNCHANGED <<widgets, pending, nextId, input_focus>>
           ELSE
            LET drag_value == widgets[entity]
                drag_state == drag_value.drag_state
                exit == exit_edit_mode(drag_state)
                exited == [widgets EXCEPT ![entity].drag_state =
                              exit.drag_state]
            IN  CASE key = "Enter" ->
                    IF CommitValue(drag_state.edit_buffer).ok
                    THEN LET ev == DragValueChanged(entity,
                                    drag_value.field_path,
                                    Constrain(CommitValue(drag_state.edit_buffer).v,
                                              drag_value.min, drag_value.max),
                                    nextId)
                         IN  /\ nextId <= MaxChanges
                             /\ widgets' = update_edit_mode_display(
                                    update_drag_value_display(exited, ev),
                                    entity, FALSE)
                             /\ pending' = queue_value_change(pending, ev)
                             /\ nextId' = nextId + 1
                             /\ input_focus' = exit.input_focus
                    ELSE /\ widgets' = update_edit_mode_display(exited, entity,
                                            FALSE)
                         /\ input_focus' = exit.input_focus
                         /\ UNCHANGED <<pending, nextId>>
                  [] key = "Escape" ->
                    /\ widgets' = update_edit_mode_display(
                            [exited EXCEPT ![entity].text =
                                FormatPrec(drag_state.original_value,
                                           drag_value.precision)],
                            entity, FALSE)
                    /\ input_focus' = exit.input_focus
                    /\ UNCHANGED <<pending, nextId>>
                  [] key = "Backspace" ->
                    LET buffer == IF drag_state.edit_buffer = <<>> THEN <<>>
                                  ELSE SubSeq(drag_state.edit_buffer, 1,
                                           Len(drag_state.edit_buffer) - 1)
                    IN  /\ widgets' = [widgets EXCEPT
                                ![entity].drag_state.edit_buffer = buffer,
                                ![entity].text = buffer \o <<"|">>]
                        /\ UNCHANGED <<pending, nextId, input_focus>>
                  [] key = "Character" ->
                    IF ValidKeyText(c)
                    THEN LET buffer == drag_state.edit_buffer \o c
                         IN  /\ Len(buffer) <= MaxBuffer
                             /\ widgets' = [widgets EXCEPT
                                    ![entity].drag_state.edit_buffer = buffer,
                                    ![entity].text = buffer \o <<"|">>]
                             /\ UNCHANGED <<pending, nextId, input_focus>>
                    ELSE UNCHANGED <<widgets, pending, nextId, input_focus>>
                  [] OTHER ->
                    UNCHANGED <<widgets, pending, nextId, input_focus>>

(***************************************************************************)
(* apply_pending_value_changes                                             *)
(***************************************************************************)
\* Mutant: a missing component is inserted with its default before the write
ApplyOneChangeInsert(w, change) ==
    LET field_path == change.field_path
        index      == field_path.entity.index
        type_id    == field_path.component_type_id
    IN  IF contains(w, field_path.entity) /\ type_id \in TypeIdSet
        THEN LET c == IF w[index].comps[type_id] = NoComponent
                      THEN Template(type_id) ELSE w[index].comps[type_id]
                 r == IF c = NoComponent THEN [ok |-> FALSE, v |-> c]
                      ELSE set_field_value_recursive(c, field_path.path,
                               change.new_value)
             IN  [world  |-> [w EXCEPT ![index].comps[type_id] = r.v],
                  warned |-> ~r.ok]
        ELSE [world |-> w, warned |-> FALSE]

\* Mutant: the entity is looked up by its index alone, whatever generation
\* the locator names
ApplyOneChangeAnyGeneration(w, change) ==
    LET field_path == change.field_path
        index      == field_path.entity.index
        type_id    == field_path.component_type_id
    IN  IF /\ index \in DOMAIN w
           /\ w[index].alive
           /\ type_id \in TypeIdSet
           /\ w[index].comps[type_id] # NoComponent
        THEN LET r == set_field_value_recursive(w[index].comps[type_id],
                          field_path.path, change.new_value)
             IN  [world  |-> [w EXCEPT ![index].comps[type_id] = r.v],
                  warned |-> ~r.ok]
        ELSE [world |-> w, warned |-> FALSE]

\* The body of the loop for one change: the store after it, and whether
\* warn! was called
ApplyOneChange(w, change) ==
    LET field_path == change.field_path
        index      == field_path.entity.index
        type_id    == field_path.component_type_id
    IN  IF get_reflected_component(w, field_path.entity, type_id) = "Ok"
        THEN LET r == set_field_value_recursive(w[index].comps[type_id],
                          field_path.path, change.new_value)
             IN  [world  |-> [w EXCEPT ![index].comps[type_id] = r.v],
                  warned |-> ~r.ok]
        ELSE [world |-> w, warned |-> FALSE]

RECURSIVE ApplyChangesAbort(_, _, _, _)

\* Mutant: the loop is left at the first change that is reported
ApplyChangesAbort(w, changes, i, warned) ==
    IF i > Len(changes) THEN [world |-> w, warned |-> warned]
    ELSE LET one == ApplyOneChange(w, changes[i])
         IN  IF one.warned
             THEN [world |-> one.world, warned |-> warned \cup {i}]
             ELSE ApplyChangesAbort(one.world, changes, i + 1, warned)

RECURSIVE ApplyChanges(_, _, _, _)

\* for change in changes { .. }: from position i on; warned collects the
\* positions whose change was reported
ApplyChanges(w, changes, i, warned) ==
    IF i > Len(changes) THEN [world |-> w, warned |-> warned]
    ELSE LET one == ApplyOneChange(w, changes[i])
         IN  ApplyChanges(one.world, changes, i + 1,
                 IF one.warned THEN warned \cup {i} ELSE warned)

\* Mutant: the changes are cloned and stay in the queue
TakeChangesClone(changes) == [taken |-> changes, left |-> changes]

\* std::mem::take(&mut pending.changes)
TakeChanges(changes) == [taken |-> changes, left |-> <<>>]

apply_pending_value_changes ==
    LET take   == TakeChanges(pending)
        result == ApplyChanges(world, take.taken, 1, {})
    IN  /\ pending' = take.left
        /\ world' = result.world
        /\ applied' = [id \in DOMAIN applied |->
                         applied[id] + Cardinality(
                             {i \in DOMAIN take.taken : take.taken[i].id = id})]
        /\ last' = [op |-> "apply", pre |-> world, batch |-> take.taken,
                    warned |-> result.warned]
        /\ UNCHANGED <<state, widgets, nextId, now, input_focus>>

ApplyPass == apply_pending_value_changes /\ UNCHANGED sched

(***************************************************************************)
(* Selection and the detail panel                                          *)
(***************************************************************************)
\* on_entity_row_click: state.selected_entity = Some(row.0)
on_entity_row_click ==
    \E e \in LiveEntities(world) :
        /\ state.selected_entity # e
        /\ state' = [state EXCEPT !.selected_entity = e]
        /\ last' = NoOp
        /\ UNCHANGED <<world, widgets, pending, nextId, applied, sched, now, input_focus>>

\* on_tab_button_click: state.active_tab = tab.0
on_tab_button_click ==
    \E tab \in {"Components", "Relationships"} :
        /\ state.active_tab # tab
        /\ state' = [state EXCEPT !.active_tab = tab]
        /\ last' = NoOp
        /\ UNCHANGED <<world, widgets, pending, nextId, applied, sched, now,
                       input_focus>>

\* The widgets the detail content holds after a rebuild
RebuiltWidgets(w, st) ==
    IF st.selected_entity = None THEN <<>>
    ELSE IF ~contains(w, st.selected_entity) THEN <<>>
    ELSE IF st.active_tab = "Components"
         THEN spawn_components_tab_exclusive(w, st.selected_entity)
         ELSE <<>>

\* Mutant: a rebuilt widget takes over the drag state of the widget that
\* stood in its place
sync_detail_panel_keep_state ==
    LET rebuilt == RebuiltWidgets(world, state)
    IN  /\ \/ state.selected_entity # state.previous_selection
           \/ state.active_tab # state.previous_tab
        /\ state' = [state EXCEPT !.previous_selection = state.selected_entity,
                                  !.previous_tab = state.active_tab]
        /\ widgets' = [i \in DOMAIN rebuilt |->
                          IF i \in DOMAIN widgets
                          THEN [rebuilt[i] EXCEPT
                                   !.drag_state = widgets[i].drag_state]
                          ELSE rebuilt[i]]
        /\ last' = NoOp
        /\ UNCHANGED <<world, pending, nextId, applied, now, input_focus>>

\* Mutant: the panel is rebuilt in every cycle, changed or not
sync_detail_panel_every_cycle ==
    /\ state' = [state EXCEPT !.previous_selection = state.selected_entity,
                              !.previous_tab = state.active_tab]
    /\ widgets' = RebuiltWidgets(world, state)
    /\ input_focus' = IF input_focus \in DOMAIN widgets THEN Dangling
                       ELSE input_focus
    /\ last' = NoOp
    /\ UNCHANGED <<world, pending, nextId, applied, now>>

\* sync_detail_panel, when the selection or the tab changed
sync_detail_panel ==
    /\ \/ state.selected_entity # state.previous_selection
       \/ state.active_tab # state.previous_tab
    /\ state' = [state EXCEPT !.previous_selection = state.selected_entity,
                              !.previous_tab = state.active_tab]
    /\ widgets' = RebuiltWidgets(world, state)
    /\ input_focus' = IF input_focus \in DOMAIN widgets THEN Dangling
                       ELSE input_focus
    /\ last' = NoOp
    /\ UNCHANGED <<world, pending, nextId, applied, now>>

SyncDetailPanel == sync_detail_panel /\ UNCHANGED sched

(***************************************************************************)
(* Host store operations                                                   *)
(***************************************************************************)
Despawn ==
    \E i \in Slots :
        /\ world[i].alive
        /\ world' = [world EXCEPT ![i].alive = FALSE,
                        ![i].comps = [t \in TypeIdSet |-> NoComponent]]
        /\ last' = NoOp
        /\ UNCHANGED <<state, widgets, pending, nextId, applied, sched, now, input_focus>>

Spawn ==
    \E i \in Slots :
        /\ ~world[i].alive
        /\ world[i].gen < MaxGen
        /\ world' = [world EXCEPT ![i].alive = TRUE,
                        ![i].gen = world[i].gen + 1,
                        ![i].comps = InitialWorld[i].comps]
        /\ last' = NoOp
        /\ UNCHANGED <<state, widgets, pending, nextId, applied, sched, now, input_focus>>

RemoveComponent ==
    \E i \in Slots, t \in TypeIdSet :
        /\ world[i].alive
        /\ world[i].comps[t] # NoComponent
        /\ world' = [world EXCEPT ![i].comps[t] = NoComponent]
        /\ last' = NoOp
        /\ UNCHANGED <<state, widgets, pending, nextId, applied, sched, now, input_focus>>

(***************************************************************************)
(* Spec: change events, host-store operations, rebuilds and write-back     *)
(* passes in any interleaving                                              *)
(***************************************************************************)
NoSchedule == [frame |-> 0, phase |-> "none", done |-> {}, atApply |-> {}]

Init ==
    /\ world = InitialWorld
    /\ state = InspectorState_default
    /\ widgets = <<>>
    /\ pending = <<>>
    /\ nextId = 1
    /\ applied = [id \in 1..MaxChanges |-> 0]
    /\ last = NoOp
    /\ sched = NoSchedule
    /\ now = 0
    /\ input_focus = NoFocus

Next ==
    \/ on_entity_row_click
    \/ SyncDetailPanel
    \/ WidgetChange
    \/ HostChange
    \/ ApplyPass

Spec == Init /\ [][Next]_vars

(***************************************************************************)
(* SpecStale: locators captured by a rebuild, then the host store despawns *)
(* entities, reuses their slots and removes components before the pass     *)
(***************************************************************************)
\* The state Spec reaches by a click on the row of entity 1 followed by the
\* rebuild: the widgets hold the locators of entity 1's editable rows
InitStale ==
    /\ world = InitialWorld
    /\ state = [InspectorState_default EXCEPT
                    !.selected_entity = Entity(1, 0),
                    !.previous_selection = Entity(1, 0)]
    /\ widgets = RebuiltWidgets(InitialWorld, state)
    /\ pending = <<>>
    /\ nextId = 1
    /\ applied = [id \in 1..MaxChanges |-> 0]
    /\ last = NoOp
    /\ sched = NoSchedule
    /\ now = 0
    /\ input_focus = NoFocus

NextStale ==
    \/ WidgetChangeOf({59})
    \/ ApplyPass
    \/ Despawn
    \/ Spawn
    \/ RemoveComponent

SpecStale == InitStale /\ [][NextStale]_vars

(***************************************************************************)
(* SpecTraversal: one entity whose Probe component is drawn from a family  *)
(* of shapes; the rebuild captures its locators, widgets emit changes and  *)
(* passes write them back                                                  *)
(***************************************************************************)
Leaf(kind) == Opaque(kind, IF kind = "bool" THEN 1 ELSE 2)

Scalars == {Leaf(k) : k \in NumericKinds \cup {"bool"}}

Level1 ==
    Scalars
    \cup {Struct("Inner", <<"w">>, <<a>>) : a \in Scalars}
    \cup {TupleStruct("Vec2", <<Leaf("f32"), b>>) : b \in {Leaf("f32"), Leaf("bool")}}
    \cup {TupleStruct("Meters", <<a>>) : a \in {Leaf("f64"), Leaf("bool")}}
    \cup {Tuple(<<Leaf("f32"), Leaf("i32")>>),
          Tuple(<<Leaf("u32"), Leaf("u32"), Leaf("u32"), Leaf("u32"), Leaf("u32")>>),
          Tuple(<<Struct("Inner", <<"w">>, <<Leaf("f32")>>)>>),
          EnumOf("Mode", "Off", "Unit", <<>>, <<>>),
          EnumOf("Mode", "Fixed", "Tuple", <<>>, <<Leaf("f32")>>),
          EnumOf("Mode", "Ramp", "Struct", <<"speed">>, <<Leaf("f32")>>),
          EnumOf("Mode", "Custom", "Tuple", <<>>,
              <<Struct("Inner", <<"w">>, <<Leaf("f32")>>), Leaf("i32")>>),
          EnumOf("Mode", "Path", "Struct", <<"pts", "next">>,
              <<ListOf("Vec<f32>", 3), EnumOf("Mode", "Off", "Unit", <<>>, <<>>)>>),
          ListOf("Vec<f32>", 3),
          [ListOf("Vec<Inner>", 2) EXCEPT !.fields =
              <<Struct("Inner", <<"w">>, <<Leaf("f32")>>),
                Struct("Inner", <<"w">>, <<Leaf("f32")>>)>>],
          [ListOf("[u32; 2]", 2) EXCEPT !.shape = "Array",
              !.fields = <<Leaf("u32"), Leaf("u32")>>],
          [ListOf("HashMap<u32, f32>", 1) EXCEPT !.shape = "Map"],
          [ListOf("HashSet<u32>", 0) EXCEPT !.shape = "Set"],
          Tuple(<<Leaf("f32"), ListOf("Vec<f32>", 3)>>),
          Struct("Gate", <<"open", "mode">>,
              <<Leaf("bool"),
                EnumOf("Mode", "Fixed", "Tuple", <<>>, <<Leaf("f32")>>)>>)}

Level2 ==
    Level1
    \cup {Struct("Mid", <<"m", "n">>, <<a, Leaf("i64")>>) : a \in Level1}
    \cup {TupleStruct("Pair", <<a, Leaf("u64")>>) : a \in Level1}

ProbeShapes ==
    {Struct("Probe", <<"a", "b">>, <<p, q>>) :
        p \in Level2, q \in {Leaf("f32"), Struct("Inner", <<"w">>, <<Leaf("i32")>>)}}
    \cup {TupleStruct("Probe", <<p>>) : p \in Level2}
    \cup {Struct("Probe", <<"translation", "visible">>, <<v, Leaf("bool")>>) :
            v \in {TupleStruct("Vec3", <<Leaf("f32"), Leaf("f32"), Leaf("f32")>>),
                   Struct("Vec3", XYZ, <<Leaf("f32"), Leaf("f32"), Leaf("f32")>>)}}

InitTraversal ==
    /\ \E shape \in ProbeShapes :
        world = << [gen |-> 0, alive |-> TRUE,
                    comps |-> [t \in TypeIdSet |->
                        IF t = "Probe" THEN shape ELSE NoComponent]] >>
    /\ state = [InspectorState_default EXCEPT !.selected_entity = Entity(1, 0)]
    /\ widgets = <<>>
    /\ pending = <<>>
    /\ nextId = 1
    /\ applied = [id \in 1..MaxChanges |-> 0]
    /\ last = NoOp
    /\ sched = NoSchedule
    /\ now = 0
    /\ input_focus = NoFocus

NextTraversal ==
    \/ SyncDetailPanel
    \/ WidgetChangeOf({59})
    \/ ApplyPass

SpecTraversal == InitTraversal /\ [][NextTraversal]_vars

(***************************************************************************)
(* SpecSched: frames.  The input events of a frame are dispatched before   *)
(* its Update schedule runs; Update runs each system once, in any order    *)
(* the ordering constraints of the two plugins allow.                      *)
(***************************************************************************)
Systems ==
    {"handle_mouse_wheel_scroll", "refresh_entity_cache", "setup_inspector_ui",
     "sync_entity_list", "sync_detail_panel", "sync_selection_highlight",
     "handle_window_close", "apply_pending_value_changes"}

\* InspectorSet::Input, RefreshCache, SyncUI, chained; the SyncUI systems
\* chained among themselves
InputSet == {"handle_mouse_wheel_scroll"}
RefreshCacheSet == {"refresh_entity_cache"}
SyncUISet ==
    {"setup_inspector_ui", "sync_entity_list", "sync_detail_panel",
     "sync_selection_highlight"}

\* the systems that must have run before system s starts
RunsAfter(s) ==
    CASE s \in RefreshCacheSet -> InputSet
      [] s = "setup_inspector_ui" -> InputSet \cup RefreshCacheSet
      [] s = "sync_entity_list" ->
            InputSet \cup RefreshCacheSet \cup {"setup_inspector_ui"}
      [] s = "sync_detail_panel" ->
            InputSet \cup RefreshCacheSet
                \cup {"setup_inspector_ui", "sync_entity_list"}
      [] s = "sync_selection_highlight" ->
            InputSet \cup RefreshCacheSet
                \cup {"setup_inspector_ui", "sync_entity_list", "sync_detail_panel"}
      [] OTHER -> {}

Ready(s) ==
    /\ sched.phase = "update"
    /\ s \notin sched.done
    /\ RunsAfter(s) \subseteq sched.done

InitSched ==
    /\ world = InitialWorld
    /\ state = InspectorState_default
    /\ widgets = <<>>
    /\ pending = <<>>
    /\ nextId = 1
    /\ applied = [id \in 1..MaxChanges |-> 0]
    /\ last = NoOp
    /\ sched = [frame |-> 1, phase |-> "input", done |-> {}, atApply |-> {}]
    /\ now = 0
    /\ input_focus = NoFocus

\* a pointer event of the frame reaches a row of the entity list
InputRowClick == sched.phase = "input" /\ on_entity_row_click

\* a pointer or key event of the frame makes a widget emit a change
InputWidgetChange == sched.phase = "input" /\ WidgetChangeOf({59})

BeginUpdate ==
    /\ sched.phase = "input"
    /\ sched' = [sched EXCEPT !.phase = "update", !.done = {}, !.atApply = {}]
    /\ last' = NoOp
    /\ UNCHANGED <<world, state, widgets, pending, nextId, applied, now,
                     input_focus>>

RunApplyPendingValueChanges ==
    /\ Ready("apply_pending_value_changes")
    /\ apply_pending_value_changes
    /\ sched' = [sched EXCEPT
                    !.done = sched.done \cup {"apply_pending_value_changes"},
                    !.atApply = sched.done]

RunSyncDetailPanel ==
    /\ Ready("sync_detail_panel")
    /\ IF \/ state.selected_entity # state.previous_selection
          \/ state.active_tab # state.previous_tab
       THEN sync_detail_panel
       ELSE /\ last' = NoOp
            /\ UNCHANGED <<world, state, widgets, pending, nextId, applied, now,
                     input_focus>>
    /\ sched' = [sched EXCEPT !.done = sched.done \cup {"sync_detail_panel"}]

\* the systems that touch neither the inspected components nor the widgets
RunOtherSystem ==
    \E s \in Systems \ {"apply_pending_value_changes", "sync_detail_panel"} :
        /\ Ready(s)
        /\ sched' = [sched EXCEPT !.done = sched.done \cup {s}]
        /\ last' = NoOp
        /\ UNCHANGED <<world, state, widgets, pending, nextId, applied, now,
                     input_focus>>

EndFrame ==
    /\ sched.phase = "update"
    /\ sched.done = Systems
    /\ sched.frame < MaxFrames
    /\ sched' = [frame |-> sched.frame + 1, phase |-> "input", done |-> {},
                 atApply |-> {}]
    /\ last' = NoOp
    /\ UNCHANGED <<world, state, widgets, pending, nextId, applied, now,
                     input_focus>>

NextSched ==
    \/ InputRowClick
    \/ InputWidgetChange
    \/ BeginUpdate
    \/ RunApplyPendingValueChanges
    \/ RunSyncDetailPanel
    \/ RunOtherSystem
    \/ EndFrame

SpecSched == InitSched /\ [][NextSched]_vars

(***************************************************************************)
(* SpecCoercion: one entity whose Probe component holds one scalar, of any *)
(* kind and holding any value of that kind the model carries; the host     *)
(* sends it values, among them the value the traversal reports for it, and *)
(* passes write them back.                                                 *)
(***************************************************************************)
\* the values a leaf of a kind can hold
LeafValues(kind) ==
    CASE kind = "f32" -> {-25, 15, Far(2), Far(5)}
      [] kind = "f64" -> {-25, 15, Far(1), Far(7)}
      [] kind = "i32" -> {-4, 7, I32_MIN, I32_MAX}
      [] kind = "i64" -> {-4, 7, Far(5), Far(6), -Far(6), I64_MIN, I64_MAX}
      [] kind = "u32" -> {0, 7, Far(2), U32_MAX}
      [] kind = "u64" -> {0, 7, Far(6), Far(9), U64_MAX}
      [] OTHER -> {0, 1}

\* the f64 values sent: -3.0, -0.9, 5.9, and landmarks that are f64 numbers
CoercionValues ==
    {-30, -9, 59, Far(1), Far(3), Far(7), Far(9), Far(11), Huge,
     -Far(2), -Far(4), -Far(9), -Huge}

ProbePath == FieldPath(Entity(1, 0), "Probe", << Named("v") >>)

InitCoercion ==
    /\ \E kind \in NumericKinds \cup {"bool"} :
        \E val \in LeafValues(kind) :
            world = << [gen |-> 0, alive |-> TRUE,
                        comps |-> [t \in TypeIdSet |->
                            IF t = "Probe"
                            THEN Struct("Probe", <<"v">>, << Opaque(kind, val) >>)
                            ELSE NoComponent]] >>
    /\ state = InspectorState_default
    /\ widgets = <<>>
    /\ pending = <<>>
    /\ nextId = 1
    /\ applied = [id \in 1..MaxChanges |-> 0]
    /\ last = NoOp
    /\ sched = NoSchedule
    /\ now = 0
    /\ input_focus = NoFocus

\* the host sends a value to the scalar
HostWrite ==
    \E new_value \in CoercionValues :
        TriggerDragValueChanged(0, ProbePath, new_value)

\* the host sends the scalar the value the traversal reports for it
HostNoOpEdit ==
    \E n \in DOMAIN extract_fields_from_reflect(world[1].comps["Probe"], 0,
                        SemanticFieldNames_new, <<>>) :
        LET row == extract_fields_from_reflect(world[1].comps["Probe"], 0,
                        SemanticFieldNames_new, <<>>)[n]
        IN  /\ row.editable.some
            /\ TriggerDragValueChanged(0,
                   FieldPath(Entity(1, 0), "Probe", row.editable.path),
                   row.editable.numeric_value)

NextCoercion ==
    \/ HostWrite
    \/ HostNoOpEdit
    \/ ApplyPass

SpecCoercion == InitCoercion /\ [][NextCoercion]_vars

(***************************************************************************)
(* SpecPaths: one entity whose Probe component is a struct over a field of *)
(* any shape; the host sends changes whose locators combine every kind of  *)
(* step with every shape, and passes apply them.                           *)
(***************************************************************************)
PathShapes ==
    {Struct("Probe", <<"a", "b">>, <<p, Leaf("f32")>>) : p \in Level1}

Steps ==
    {Named("a"), Named("w"), Named("zz"), Index(0), Index(1), Index(5)}

StepPaths ==
    {<<s>> : s \in Steps}
    \cup {<<f, s>> : f \in {Named("a"), Index(0)}, s \in Steps}

InitPaths ==
    /\ \E shape \in PathShapes :
        world = << [gen |-> 0, alive |-> TRUE,
                    comps |-> [t \in TypeIdSet |->
                        IF t = "Probe" THEN shape ELSE NoComponent]] >>
    /\ state = InspectorState_default
    /\ widgets = <<>>
    /\ pending = <<>>
    /\ nextId = 1
    /\ applied = [id \in 1..MaxChanges |-> 0]
    /\ last = NoOp
    /\ sched = NoSchedule
    /\ now = 0
    /\ input_focus = NoFocus

\* the host sends 5.9 to a locator of its own making
HostStep ==
    /\ nextId <= MaxChanges
    /\ \E path \in StepPaths :
          TriggerDragValueChanged(0, FieldPath(Entity(1, 0), "Probe", path), 59)

NextPaths ==
    \/ HostStep
    \/ ApplyPass

SpecPaths == InitPaths /\ [][NextPaths]_vars

(***************************************************************************)
(* SpecWidget: the inspector with its widgets under pointer and keyboard   *)
(* events, selection changes, rebuilds and write-back passes               *)
(***************************************************************************)
\* the keyboard sends one of inputs, each the button state, the logical key
\* and the text of a Key::Character, to the holder of the input focus
FocusedInputOf(inputs) ==
    \E input \in inputs :
        drag_value_on_keyboard_input(input[1], input[2], input[3])

\* one entity, carrying a Probe of one f64
WidgetWorld ==
    << [gen |-> 0, alive |-> TRUE,
        comps |-> [t \in TypeIdSet |->
                     IF t = "Probe"
                     THEN Struct("Probe", <<"speed">>, << Opaque("f64", 100) >>)
                     ELSE NoComponent]] >>

InitWidget ==
    /\ world = WidgetWorld
    /\ state = InspectorState_default
    /\ widgets = <<>>
    /\ pending = <<>>
    /\ nextId = 1
    /\ applied = [id \in 1..MaxChanges |-> 0]
    /\ last = NoOp
    /\ sched = NoSchedule
    /\ now = 0
    /\ input_focus = NoFocus

NextWidget ==
    \/ \E w \in DOMAIN widgets : drag_value_on_click(w)
    \/ \E w \in DOMAIN widgets : drag_value_on_drag_start(w)
    \/ \E w \in DOMAIN widgets, delta_x \in {-20, 50} :
            drag_value_on_drag(w, delta_x)
    \/ \E w \in DOMAIN widgets : drag_value_on_drag_end(w)
    \/ FocusedInputOf({<<TRUE, "Enter", <<>> >>, <<TRUE, "Escape", <<>> >>,
                       <<FALSE, "Enter", <<>> >>})
    \/ on_entity_row_click
    \/ on_tab_button_click
    \/ SyncDetailPanel
    \/ ApplyPass

SpecWidget == InitWidget /\ [][NextWidget]_vars

(***************************************************************************)
(* SpecClick: clicks on one widget at instants 250, 300 and 400 ms apart,  *)
(* the start and end of drags, Backspace and the keys that leave edit mode *)
(***************************************************************************)
InitClick ==
    /\ world = WidgetWorld
    /\ state = [InspectorState_default EXCEPT
                    !.selected_entity = Entity(1, 0),
                    !.previous_selection = Entity(1, 0)]
    /\ widgets = RebuiltWidgets(WidgetWorld, state)
    /\ pending = <<>>
    /\ nextId = 1
    /\ applied = [id \in 1..MaxChanges |-> 0]
    /\ last = NoOp
    /\ sched = NoSchedule
    /\ now = 0
    /\ input_focus = NoFocus

NextClick ==
    \/ AdvanceClockBy({250, 300, 400})
    \/ \E w \in DOMAIN widgets : drag_value_on_click(w)
    \/ \E w \in DOMAIN widgets : drag_value_on_drag_start(w)
    \/ \E w \in DOMAIN widgets : drag_value_on_drag_end(w)
    \/ FocusedInputOf({<<TRUE, "Enter", <<>> >>, <<TRUE, "Escape", <<>> >>,
                       <<TRUE, "Backspace", <<>> >>})

SpecClick == InitClick /\ [][NextClick]_vars

(***************************************************************************)
(* SpecBounds: one DragValue spawned by the host with bounds of its        *)
(* choice, under drags, double clicks, the keys that leave edit mode and   *)
(* write-back passes                                                       *)
(***************************************************************************)
\* DragValueProps::min and ::max as a host sets them: none, one of the two,
\* both in order, both crossed
BoundChoices ==
    { <<NoBound, NoBound>>,
      <<[some |-> TRUE, v |-> 120], NoBound>>,
      <<NoBound, [some |-> TRUE, v |-> 120]>>,
      <<[some |-> TRUE, v |-> 120], [some |-> TRUE, v |-> 200]>>,
      <<[some |-> TRUE, v |-> 200], [some |-> TRUE, v |-> 120]>> }

InitBounds ==
    /\ world = WidgetWorld
    /\ state = InspectorState_default
    /\ \E b \in BoundChoices :
          widgets = << [DragValueWidget(Entity(1, 0), "Probe",
                            EditableFieldInfo(Opaque("f64", 100),
                                              << Named("speed") >>))
                        EXCEPT !.min = b[1], !.max = b[2]] >>
    /\ pending = <<>>
    /\ nextId = 1
    /\ applied = [id \in 1..MaxChanges |-> 0]
    /\ last = NoOp
    /\ sched = NoSchedule
    /\ now = 0
    /\ input_focus = NoFocus

NextBounds ==
    \/ \E w \in DOMAIN widgets : drag_value_on_click(w)
    \/ \E w \in DOMAIN widgets : drag_value_on_drag_start(w)
    \/ \E w \in DOMAIN widgets, delta_x \in {-20, 0, 50} :
            drag_value_on_drag(w, delta_x)
    \/ \E w \in DOMAIN widgets : drag_value_on_drag_end(w)
    \/ FocusedInputOf({<<TRUE, "Enter", <<>> >>, <<TRUE, "Escape", <<>> >>})
    \/ ApplyPass

SpecBounds == InitBounds /\ [][NextBounds]_vars

(***************************************************************************)
(* SpecEdit: the widget of SpecBounds under double clicks and typing       *)
(***************************************************************************)
NextEdit ==
    \/ \E w \in DOMAIN widgets : drag_value_on_click(w)
    \/ FocusedInputOf({<<TRUE, "Enter", <<>> >>, <<TRUE, "Escape", <<>> >>,
                       <<TRUE, "Backspace", <<>> >>,
                       <<FALSE, "Enter", <<>> >>,
                       <<TRUE, "Character", <<"5">> >>,
                       <<TRUE, "Character", <<"-">> >>,
                       <<TRUE, "Character", <<"5", "x">> >>})

SpecEdit == InitBounds /\ [][NextEdit]_vars

(***************************************************************************)
(* SpecRebuild: two inspected entities, one with one number and one with   *)
(* two; selection and tab clicks and the rebuilds they cause, while        *)
(* widgets are clicked, dragged and edited                                 *)
(***************************************************************************)
InitRebuild ==
    /\ world = WidgetWorld \o
          << [gen |-> 0, alive |-> TRUE,
              comps |-> [t \in TypeIdSet |->
                           IF t = "Probe"
                           THEN Struct("Probe", <<"hp", "speed">>,
                                    << Opaque("u32", 7), Opaque("f32", 100) >>)
                           ELSE NoComponent]] >>
    /\ state = InspectorState_default
    /\ widgets = <<>>
    /\ pending = <<>>
    /\ nextId = 1
    /\ applied = [id \in 1..MaxChanges |-> 0]
    /\ last = NoOp
    /\ sched = NoSchedule
    /\ now = 0
    /\ input_focus = NoFocus

NextRebuild ==
    \/ on_entity_row_click
    \/ on_tab_button_click
    \/ SyncDetailPanel
    \/ \E w \in DOMAIN widgets : drag_value_on_click(w)
    \/ \E w \in DOMAIN widgets : drag_value_on_drag_start(w)
    \/ FocusedInputOf({<<TRUE, "Escape", <<>> >>, <<TRUE, "Backspace", <<>> >>})

SpecRebuild == InitRebuild /\ [][NextRebuild]_vars

(***************************************************************************)
(* What a locator addresses, stated apart from the engine: Named(n) is the *)
(* field called n of a struct, Index(i) the field at position i of a tuple *)
(* struct or a tuple.                                                      *)
(***************************************************************************)
RECURSIVE PosPaths(_)

\* the positions (1-based field numbers from the root) of every scalar
PosPaths(r) ==
    IF r.fields = <<>> THEN {<<>>}
    ELSE UNION {{<<i>> \o p : p \in PosPaths(r.fields[i])} :
                    i \in DOMAIN r.fields}

RECURSIVE NodeAt(_, _)

NodeAt(r, pos) ==
    IF pos = <<>> THEN r ELSE NodeAt(r.fields[Head(pos)], Tail(pos))

\* the field of r a step selects, {} when there is none
StepTargets(r, seg) ==
    IF seg.tag = "Named"
    THEN {j \in DOMAIN r.names : r.shape = "Struct" /\ r.names[j] = seg.name}
    ELSE {j \in DOMAIN r.fields :
            r.shape \in {"TupleStruct", "Tuple"} /\ j = seg.idx + 1}

RECURSIVE Addressed(_, _)

\* the position a path addresses in r, <<0>> when a step has no such field
Addressed(r, path) ==
    IF path = <<>> THEN <<>>
    ELSE IF StepTargets(r, Head(path)) = {} THEN <<0>>
    ELSE LET i == CHOOSE j \in StepTargets(r, Head(path)) : TRUE
             rest == Addressed(r.fields[i], Tail(path))
         IN  IF rest = <<0>> THEN <<0>> ELSE <<i>> \o rest

\* the component a locator names in store w, NoComponent when there is none
ComponentOf(w, field_path) ==
    IF /\ contains(w, field_path.entity)
       /\ field_path.component_type_id \in TypeIdSet
    THEN w[field_path.entity.index].comps[field_path.component_type_id]
    ELSE NoComponent

\* the locator leads to a scalar of a numeric kind in store w
Resolves(w, field_path) ==
    LET c == ComponentOf(w, field_path)
    IN  /\ c # NoComponent
        /\ Addressed(c, field_path.path) # <<0>>
        /\ NodeAt(c, Addressed(c, field_path.path)).ty \in NumericKinds

\* what a leaf of kind ty holds once the f64 v is written to it
Stored(ty, v) ==
    CASE ty \in {"f32", "f64"} -> v
      [] ty \in {"u32", "u64"} /\ v < 0 -> 0
      [] OTHER -> Trunc(v)

\* the state is the one a write-back pass has just produced
AfterPass == last.op = "apply"

\* the store as the pass left it after the first k changes of its batch
WorldAfter(k) == ApplyChanges(last.pre, SubSeq(last.batch, 1, k), 1, {}).world

\* two changes of the batch address the same leaf
SameLeaf(a, b) ==
    /\ a.field_path.entity = b.field_path.entity
    /\ a.field_path.component_type_id = b.field_path.component_type_id
    /\ Addressed(ComponentOf(last.pre, a.field_path), a.field_path.path)
         = Addressed(ComponentOf(last.pre, b.field_path), b.field_path.path)

\* the leaf a resolving change addresses, in store w
LeafOf(w, change) ==
    NodeAt(ComponentOf(w, change.field_path),
           Addressed(ComponentOf(last.pre, change.field_path),
                     change.field_path.path))

(***************************************************************************)
(* C2  A successful write-back changes exactly the leaf its locator        *)
(* addresses: after a pass, every scalar of every component of every       *)
(* entity that no successful change of the batch addresses holds the value *)
(* it held before the pass, and no entity or component appeared, vanished  *)
(* or changed shape.                                                       *)
(***************************************************************************)
\* change k of the batch was written (found its component, returned true)
Succeeded(k) ==
    /\ get_reflected_component(last.pre, last.batch[k].field_path.entity,
           last.batch[k].field_path.component_type_id) = "Ok"
    /\ k \notin last.warned

\* change k of the batch addresses the scalar at pos of component t of slot i
Targets(k, i, t, pos) ==
    /\ last.batch[k].field_path.entity = Entity(i, last.pre[i].gen)
    /\ last.batch[k].field_path.component_type_id = t
    /\ Addressed(last.pre[i].comps[t], last.batch[k].field_path.path) = pos

C2_OnlyAddressedLeafChanges ==
    AfterPass =>
        \A i \in Slots :
            /\ world[i].gen = last.pre[i].gen
            /\ world[i].alive = last.pre[i].alive
            /\ \A t \in TypeIdSet :
                LET before == last.pre[i].comps[t]
                    after  == world[i].comps[t]
                IN  /\ PosPaths(after) = PosPaths(before)
                    /\ \A pos \in PosPaths(before) :
                        \/ \E k \in DOMAIN last.batch :
                                Succeeded(k) /\ Targets(k, i, t, pos)
                        \/ NodeAt(after, pos) = NodeAt(before, pos)
                    /\ \A pos \in PosPaths(before) :
                        NodeAt(after, pos).ty = NodeAt(before, pos).ty

\* a pass wrote the y leaf of entity 1's translation and the store changed
C2_Witness ==
    /\ AfterPass
    /\ world # last.pre
    /\ \E k \in DOMAIN last.batch :
        /\ Succeeded(k)
        /\ last.batch[k].field_path =
              FieldPath(Entity(1, 0), "Transform",
                        << Named("translation"), Index(1) >>)
    /\ world[1].comps["Transform"].fields[1].fields[1].val = 10
    /\ world[1].comps["Transform"].fields[1].fields[2].val = 59
    /\ world[1].comps["Transform"].fields[1].fields[3].val = 30

\* why applying a locator to store w fails, "none" when it resolves
FailureReason(w, field_path) ==
    LET c == ComponentOf(w, field_path)
    IN  CASE ~contains(w, field_path.entity) -> "ObjectNotFound"
          [] c = NoComponent -> "ComponentNotFound"
          [] Addressed(c, field_path.path) = <<0>> -> "PathResolutionFailed"
          [] NodeAt(c, Addressed(c, field_path.path)).ty \notin NumericKinds ->
                "UnsupportedLeafKind"
          [] OTHER -> "none"

\* why change k of the batch failed when the pass reached it
ReasonAt(k) == FailureReason(WorldAfter(k - 1), last.batch[k].field_path)

(***************************************************************************)
(* C5  A failed write-back is a no-op on the store: for each change of a   *)
(* pass that fails (object absent, component absent, a step that does not  *)
(* resolve, a terminal that is no numeric scalar), the store after the     *)
(* attempt equals the store before it.                                     *)
(***************************************************************************)
C5_FailedWriteIsNoOp ==
    AfterPass =>
        /\ WorldAfter(Len(last.batch)) = world
        /\ \A k \in DOMAIN last.batch :
                ReasonAt(k) # "none" => WorldAfter(k) = WorldAfter(k - 1)

\* a pass met a step that does not resolve and a bool terminal
C5_Witness ==
    /\ AfterPass
    /\ \E k \in DOMAIN last.batch : ReasonAt(k) = "PathResolutionFailed"
    /\ \E k \in DOMAIN last.batch : ReasonAt(k) = "UnsupportedLeafKind"
    /\ world = last.pre

(***************************************************************************)
(* C6  A failing change never aborts the batch: after a pass, the leaf of  *)
(* every change whose locator resolves holds the value of the last change  *)
(* of the batch that resolves to that leaf, whatever failed before or      *)
(* after it.                                                               *)
(***************************************************************************)
\* the last position of the batch whose change resolves to the leaf of k
LastOnLeaf(k) ==
    CHOOSE j \in DOMAIN last.batch :
        /\ Resolves(last.pre, last.batch[j].field_path)
        /\ SameLeaf(last.batch[j], last.batch[k])
        /\ \A m \in DOMAIN last.batch :
                (Resolves(last.pre, last.batch[m].field_path)
                    /\ SameLeaf(last.batch[m], last.batch[k])) => m <= j

C6_FailureDoesNotAbortBatch ==
    AfterPass =>
        \A k \in DOMAIN last.batch :
            Resolves(last.pre, last.batch[k].field_path) =>
                LeafOf(world, last.batch[k]).val =
                    Stored(LeafOf(last.pre, last.batch[k]).ty,
                           last.batch[LastOnLeaf(k)].new_value)

\* a reported failure came first in the batch and the change behind it was
\* written
C6_Witness ==
    /\ AfterPass
    /\ Len(last.batch) >= 2
    /\ ReasonAt(1) = "UnsupportedLeafKind"
    /\ Resolves(last.pre, last.batch[2].field_path)
    /\ LeafOf(world, last.batch[2]) # LeafOf(last.pre, last.batch[2])

(***************************************************************************)
(* C7  Every failed write-back is reported: each change of a pass that     *)
(* fails, for any of the four reasons, has a diagnostic emitted for it.    *)
(***************************************************************************)
C7_EveryFailureReported ==
    AfterPass =>
        \A k \in DOMAIN last.batch :
            ReasonAt(k) # "none" => k \in last.warned

(***************************************************************************)
(* C8  The pass applies the changes in the order they were enqueued: the   *)
(* queue holds the events in the order they were triggered, and after a    *)
(* pass the leaf of every resolving change holds the value of the          *)
(* last-triggered change of the batch that resolves to that leaf.          *)
(***************************************************************************)
\* the change of the batch triggered last among those resolving to k's leaf
LatestOnLeaf(k) ==
    CHOOSE j \in DOMAIN last.batch :
        /\ Resolves(last.pre, last.batch[j].field_path)
        /\ SameLeaf(last.batch[j], last.batch[k])
        /\ \A m \in DOMAIN last.batch :
                (Resolves(last.pre, last.batch[m].field_path)
                    /\ SameLeaf(last.batch[m], last.batch[k]))
                => last.batch[m].id <= last.batch[j].id

C8_EnqueueOrderLastWriteWins ==
    /\ \A i, j \in DOMAIN pending : i < j => pending[i].id < pending[j].id
    /\ AfterPass =>
        \A k \in DOMAIN last.batch :
            Resolves(last.pre, last.batch[k].field_path) =>
                LeafOf(world, last.batch[k]).val =
                    Stored(LeafOf(last.pre, last.batch[k]).ty,
                           last.batch[LatestOnLeaf(k)].new_value)

\* two changes of one batch wrote different values to one leaf, which holds
\* the second
C8_Witness ==
    /\ AfterPass
    /\ \E i, j \in DOMAIN last.batch :
        /\ last.batch[i].id < last.batch[j].id
        /\ Resolves(last.pre, last.batch[i].field_path)
        /\ last.batch[i].field_path = last.batch[j].field_path
        /\ Stored(LeafOf(last.pre, last.batch[i]).ty, last.batch[i].new_value)
             # Stored(LeafOf(last.pre, last.batch[j]).ty, last.batch[j].new_value)
        /\ LeafOf(world, last.batch[j]).val =
             Stored(LeafOf(last.pre, last.batch[j]).ty, last.batch[j].new_value)

(***************************************************************************)
(* C9  Each enqueued change is consumed by exactly one pass: a change      *)
(* still queued was consumed by no pass, every other change triggered so   *)
(* far by exactly one, no change is queued twice, and the queue is empty   *)
(* right after every pass.                                                 *)
(***************************************************************************)
Queued(id) == {i \in DOMAIN pending : pending[i].id = id}

C9_ConsumedExactlyOnce ==
    /\ \A id \in 1..(nextId - 1) :
        /\ Cardinality(Queued(id)) <= 1
        /\ applied[id] = IF Queued(id) = {} THEN 1 ELSE 0
    /\ AfterPass => pending = <<>>

\* a second pass consumed a change while an earlier change stays consumed
\* once
C9_Witness ==
    /\ AfterPass
    /\ last.batch # <<>>
    /\ \E id \in 1..(nextId - 1) :
        /\ applied[id] = 1
        /\ \A k \in DOMAIN last.batch : last.batch[k].id # id

(***************************************************************************)
(* C3  Stale-path safety: a change whose locator was captured by a rebuild *)
(* while the component existed, applied after the component was removed    *)
(* from its still-living entity, fails with ComponentNotFound; the pass    *)
(* completes and the attempt leaves every field of every object as it was. *)
(***************************************************************************)
\* change k of the batch names a component its living entity no longer has
ComponentGone(k) ==
    /\ contains(last.pre, last.batch[k].field_path.entity)
    /\ ComponentOf(last.pre, last.batch[k].field_path) = NoComponent

C3_StalePathSafety ==
    AfterPass =>
        /\ pending = <<>>
        /\ WorldAfter(Len(last.batch)) = world
        /\ \A k \in DOMAIN last.batch :
            ComponentGone(k) =>
                /\ get_reflected_component(last.pre,
                       last.batch[k].field_path.entity,
                       last.batch[k].field_path.component_type_id)
                     = "ComponentNotFound"
                /\ WorldAfter(k) = WorldAfter(k - 1)
        /\ (\A k \in DOMAIN last.batch : ComponentGone(k)) => world = last.pre

\* a pass met a change for the hp leaf of entity 1 after its Stats was
\* removed, entity 1 still holding its Transform
C3_Witness ==
    /\ AfterPass
    /\ \E k \in DOMAIN last.batch :
        /\ ComponentGone(k)
        /\ last.batch[k].field_path =
              FieldPath(Entity(1, 0), "Stats", << Named("hp") >>)
    /\ world[1].comps["Transform"] = TransformValue

(***************************************************************************)
(* C4  A change whose locator names a destroyed object fails with          *)
(* ObjectNotFound and mutates nothing, also when the slot has been reused  *)
(* by an entity of another generation: the new entity is not written.      *)
(***************************************************************************)
\* change k of the batch names an entity the store no longer holds
ObjectGone(k) == ~contains(last.pre, last.batch[k].field_path.entity)

C4_DestroyedObjectNeverWritten ==
    AfterPass =>
        /\ WorldAfter(Len(last.batch)) = world
        /\ \A k \in DOMAIN last.batch :
            ObjectGone(k) =>
                /\ get_reflected_component(last.pre,
                       last.batch[k].field_path.entity,
                       last.batch[k].field_path.component_type_id)
                     = "ObjectNotFound"
                /\ WorldAfter(k) = WorldAfter(k - 1)
        /\ (\A k \in DOMAIN last.batch : ObjectGone(k)) => world = last.pre

\* a pass met a change for generation 0 of slot 1 while the slot held a
\* living entity of generation 1
C4_Witness ==
    /\ AfterPass
    /\ \E k \in DOMAIN last.batch :
        /\ ObjectGone(k)
        /\ last.batch[k].field_path.entity = Entity(1, 0)
    /\ last.pre[1].alive
    /\ last.pre[1].gen = 1
    /\ world[1].comps["Transform"] = TransformValue

(***************************************************************************)
(* C1  Path round-trip: for every editable row the traversal produces for  *)
(* a component of a living entity, replaying the row's locator on that     *)
(* component resolves every step and ends at a scalar of one of the six    *)
(* numeric kinds; and a pass reports no change emitted by a widget.        *)
(***************************************************************************)
\* the rows of component t of slot i
RowsOf(i, t) ==
    extract_fields_from_reflect(world[i].comps[t], 0, SemanticFieldNames_new,
        <<>>)

C1_PathRoundTrip ==
    /\ \A i \in DOMAIN world, t \in TypeIdSet :
        (world[i].alive /\ world[i].comps[t] # NoComponent) =>
            \A n \in DOMAIN RowsOf(i, t) :
                RowsOf(i, t)[n].editable.some =>
                    LET c    == world[i].comps[t]
                        path == RowsOf(i, t)[n].editable.path
                    IN  /\ set_field_value_recursive(c, path, 59).ok
                        /\ Addressed(c, path) # <<0>>
                        /\ NodeAt(c, Addressed(c, path)).ty \in NumericKinds
                        /\ NodeAt(c, Addressed(c, path)).shape = "Opaque"
    /\ AfterPass => \A k \in DOMAIN last.batch : Succeeded(k)

\* a pass wrote back a two-step locator captured by the rebuild from a
\* component that also holds a bool inside the same tuple struct
C1_Witness ==
    /\ AfterPass
    /\ \E k \in DOMAIN last.batch :
        /\ Succeeded(k)
        /\ Len(last.batch[k].field_path.path) = 2
        /\ last.batch[k].field_path.path[2] = Index(0)
        /\ LeafOf(world, last.batch[k]).val = 59
    /\ \E pos \in PosPaths(world[1].comps["Probe"]) :
            NodeAt(world[1].comps["Probe"], pos).ty = "bool"

(***************************************************************************)
(* C10  In every frame the write-back pass runs after the input and the    *)
(* cache-refresh systems of the frame and before every SyncUI system (the  *)
(* row rebuild among them).                                                *)
(***************************************************************************)
C10_WriteBackBetweenRefreshAndRebuild ==
    "apply_pending_value_changes" \in sched.done =>
        /\ InputSet \cup RefreshCacheSet \subseteq sched.atApply
        /\ sched.atApply \cap SyncUISet = {}

(***************************************************************************)
(* C12  Coercion at the terminal node: a float leaf receives the value; an *)
(* integer leaf receives the value with its fractional part dropped,       *)
(* brought to the nearest end of the kind's range when it lies outside it; *)
(* an unsigned leaf receives 0 for a negative value; a bool leaf receives  *)
(* nothing.  5.9 sent to a u32 leaf stores 5 and -3.0 sent to an unsigned  *)
(* leaf stores 0.                                                          *)
(***************************************************************************)
\* the ends of the range of an integer kind
KindMin(ty) ==
    CASE ty = "i32" -> I32_MIN
      [] ty = "i64" -> I64_MIN
      [] OTHER -> 0

KindMax(ty) ==
    CASE ty = "i32" -> I32_MAX
      [] ty = "i64" -> I64_MAX
      [] ty = "u32" -> U32_MAX
      [] OTHER -> U64_MAX

\* n is the whole number v has once its fractional part is dropped
WholePartOf(v, n) ==
    IF IsFar(v) THEN n = v
    ELSE IF v >= 0 THEN n >= 0 /\ n * 10 <= v /\ v < (n + 1) * 10
         ELSE n <= 0 /\ n * 10 >= v /\ v > (n - 1) * 10

\* leaf `after` is leaf `before` once the f64 v was coerced into it
Coerced(before, after, v) ==
    /\ after.ty = before.ty
    /\ after.shape = before.shape
    /\ CASE before.ty = "f64" -> after.val = v
         [] before.ty = "f32" -> ~IsFar(v) => after.val = v
         [] before.ty \in {"i32", "i64", "u32", "u64"} ->
                /\ KindMin(before.ty) <= after.val
                /\ after.val <= KindMax(before.ty)
                /\ \/ WholePartOf(v, after.val)
                   \/ after.val = KindMax(before.ty) /\ v > KindMax(before.ty)
                   \/ after.val = KindMin(before.ty) /\ v < KindMin(before.ty)
                /\ (before.ty \in {"u32", "u64"} /\ v < 0) => after.val = 0
                /\ (before.ty = "u32" /\ v = 59) => after.val = 5
         [] OTHER -> after = before

C12_CoercionAtTerminal ==
    AfterPass =>
        \A k \in DOMAIN last.batch :
            /\ Coerced(LeafOf(WorldAfter(k - 1), last.batch[k]),
                       LeafOf(WorldAfter(k), last.batch[k]),
                       last.batch[k].new_value)
            /\ (k \in last.warned) <=>
                    (LeafOf(last.pre, last.batch[k]).ty \notin NumericKinds)

\* a pass wrote a value above the range into an i32 leaf, which holds the
\* largest i32
C12_Witness ==
    /\ AfterPass
    /\ \E k \in DOMAIN last.batch :
        /\ last.batch[k].new_value = Far(3)
        /\ LeafOf(WorldAfter(k), last.batch[k]).ty = "i32"
        /\ LeafOf(WorldAfter(k), last.batch[k]).val = I32_MAX

(***************************************************************************)
(* C14  Idempotence of no-op edits: a change carrying the value the        *)
(* traversal reports for the leaf it addresses leaves the store as it was. *)
(***************************************************************************)
C14_NoOpEditIsIdempotent ==
    AfterPass =>
        \A k \in DOMAIN last.batch :
            LET leaf == LeafOf(WorldAfter(k - 1), last.batch[k])
            IN  (/\ try_extract_numeric(leaf).some
                 /\ last.batch[k].new_value = try_extract_numeric(leaf).v)
                    => WorldAfter(k) = WorldAfter(k - 1)

(***************************************************************************)
(* C13  Step resolution rule as claimed: Named(n) resolves exactly on a    *)
(* struct with a field named n; Index(i) resolves exactly on a struct, a   *)
(* tuple struct or a tuple with more than i fields; a change is applied    *)
(* exactly when each step of its locator resolves and the node reached is  *)
(* a numeric scalar.                                                       *)
(***************************************************************************)
\* the field of r a step selects under the claimed rule, {} for none
ClaimedStepTargets(r, seg) ==
    IF seg.tag = "Named"
    THEN {j \in DOMAIN r.names : r.shape = "Struct" /\ r.names[j] = seg.name}
    ELSE {j \in DOMAIN r.fields :
            r.shape \in {"Struct", "TupleStruct", "Tuple"} /\ j = seg.idx + 1}

RECURSIVE ClaimedAddressed(_, _)

ClaimedAddressed(r, path) ==
    IF path = <<>> THEN <<>>
    ELSE IF ClaimedStepTargets(r, Head(path)) = {} THEN <<0>>
    ELSE LET i == CHOOSE j \in ClaimedStepTargets(r, Head(path)) : TRUE
             rest == ClaimedAddressed(r.fields[i], Tail(path))
         IN  IF rest = <<0>> THEN <<0>> ELSE <<i>> \o rest

\* the component change k of the batch found when the pass reached it
ComponentAt(k) == ComponentOf(WorldAfter(k - 1), last.batch[k].field_path)

C13_StepResolutionRule ==
    AfterPass =>
        \A k \in DOMAIN last.batch :
            ComponentAt(k) # NoComponent =>
                LET pos == ClaimedAddressed(ComponentAt(k),
                                last.batch[k].field_path.path)
                IN  (k \notin last.warned) <=>
                        /\ pos # <<0>>
                        /\ NodeAt(ComponentAt(k), pos).ty \in NumericKinds

(***************************************************************************)
(* C13 (amended)  Named(n) resolves exactly on a struct with a field named *)
(* n; Index(i) resolves exactly on a tuple struct or a tuple with more     *)
(* than i fields, and never on a struct; a change is applied exactly when  *)
(* each step of its locator resolves and the node reached is a numeric     *)
(* scalar, and is reported and leaves the store as it was otherwise.       *)
(***************************************************************************)
C13_StepResolutionTupleIndexOnly ==
    AfterPass =>
        \A k \in DOMAIN last.batch :
            ComponentAt(k) # NoComponent =>
                LET pos == Addressed(ComponentAt(k),
                                last.batch[k].field_path.path)
                    hit == /\ pos # <<0>>
                           /\ NodeAt(ComponentAt(k), pos).ty \in NumericKinds
                IN  /\ (k \notin last.warned) <=> hit
                    /\ hit => NodeAt(ComponentOf(WorldAfter(k),
                                        last.batch[k].field_path), pos).val
                                = Stored(NodeAt(ComponentAt(k), pos).ty,
                                         last.batch[k].new_value)
                    /\ ~hit => WorldAfter(k) = WorldAfter(k - 1)

\* a pass reported a change whose locator takes Index(0) on the struct at
\* the root, where the field at position 0 is a numeric scalar
C13_Witness ==
    /\ AfterPass
    /\ \E k \in DOMAIN last.batch :
        /\ last.batch[k].field_path.path = << Index(0) >>
        /\ ComponentAt(k).shape = "Struct"
        /\ ComponentAt(k).fields[1].ty \in NumericKinds
        /\ k \in last.warned
        /\ WorldAfter(k) = WorldAfter(k - 1)

(***************************************************************************)
(* C11: the write-back pass is the only step that changes a value of an    *)
(* inspected object: no click, drag start, drag move, drag end or keyboard *)
(* observer, no enqueueing of a change, no selection or tab click and no   *)
(* rebuild of the detail panel changes the store.                          *)
(***************************************************************************)
C11_OnlyWriteBackMutates ==
    [][last'.op # "apply" => world' = world]_vars

\* a drag move has queued a change and the store still holds what it held
C11_Witness ==
    /\ last.op = "drag"
    /\ pending # <<>>
    /\ pending[Len(pending)].new_value # 100
    /\ world = WidgetWorld

(***************************************************************************)
(* C15: a click on a widget that is not editing enters edit mode exactly   *)
(* when the widget holds a recorded click less than 300 ms old: recorded   *)
(* 250 ms earlier it enters, 300 or 400 ms earlier it does not.  A click   *)
(* on a widget in edit mode leaves the edit as it is.                      *)
(***************************************************************************)
C15_DoubleClickThreshold ==
    [][\A w \in DOMAIN widgets :
          (last'.op = "click" /\ last'.widget = w) =>
              LET before  == widgets[w].drag_state
                  after   == widgets'[w].drag_state
                  elapsed == now - before.last_click_time.v
              IN  /\ ~before.editing =>
                        /\ after.editing <=>
                              (before.last_click_time.some /\ elapsed < 300)
                        /\ before.last_click_time.some =>
                              /\ elapsed = 250 => after.editing
                              /\ elapsed \in {300, 400} => ~after.editing
                  /\ before.editing =>
                        /\ after.editing
                        /\ after.edit_buffer = before.edit_buffer
                        /\ after.original_value = before.original_value
                        /\ widgets'[w].text = widgets[w].text
                        /\ input_focus' = input_focus]_vars

\* the click at 250 ms has entered edit mode on the click recorded before it
C15_Witness ==
    /\ last.op = "click"
    /\ now = 250
    /\ widgets[last.widget].drag_state.editing
    /\ input_focus = last.widget

(***************************************************************************)
(* C16: the change a drag move emits carries start_value + delta_x *       *)
(* drag_speed, raised to min when min is set and then lowered to max when  *)
(* max is set; with min <= max the value lies between them; from 10.0 at   *)
(* 0.1 per pixel a move of +50 px emits 15.0.                              *)
(***************************************************************************)
C16_DragMath ==
    [][\A w \in DOMAIN widgets :
          (/\ last'.op = "drag"
           /\ last'.widget = w
           /\ Len(pending') > Len(pending)) =>
              LET dv      == widgets[w]
                  raw     == dv.drag_state.start_value
                                 + last'.input * dv.drag_speed
                  raised  == IF dv.min.some /\ raw < dv.min.v
                             THEN dv.min.v ELSE raw
                  lowered == IF dv.max.some /\ raised > dv.max.v
                             THEN dv.max.v ELSE raised
                  emitted == pending'[Len(pending')].new_value
              IN  /\ emitted = lowered
                  /\ (dv.min.some /\ dv.max.some /\ dv.min.v <= dv.max.v) =>
                         (dv.min.v <= emitted /\ emitted <= dv.max.v)
                  /\ (/\ ~dv.min.some
                      /\ ~dv.max.some
                      /\ dv.drag_state.start_value = 100
                      /\ dv.drag_speed = 1
                      /\ last'.input = 50) => emitted = 150]_vars

\* a move of +50 px from 10.0 on a widget without bounds has emitted 15.0
C16_Witness ==
    /\ last.op = "drag"
    /\ last.input = 50
    /\ ~widgets[last.widget].min.some
    /\ ~widgets[last.widget].max.some
    /\ widgets[last.widget].drag_state.start_value = 100
    /\ pending # <<>>
    /\ pending[Len(pending)].new_value = 150

(***************************************************************************)
(* C17, as stated: from 10.0 at 0.1 per pixel a move of +50 px on a widget *)
(* with min = 12.0 emits 12.0.                                             *)
(***************************************************************************)
C17_MinClampExample ==
    [][\A w \in DOMAIN widgets :
          (/\ last'.op = "drag"
           /\ last'.widget = w
           /\ Len(pending') > Len(pending)
           /\ widgets[w].drag_state.start_value = 100
           /\ widgets[w].drag_speed = 1
           /\ last'.input = 50
           /\ widgets[w].min = [some |-> TRUE, v |-> 120]) =>
              pending'[Len(pending')].new_value = 120]_vars

(***************************************************************************)
(* C17, amended: from 10.0 at 0.1 per pixel a move of +50 px emits 12.0    *)
(* on a widget with max = 12.0, and 15.0 on a widget with min = 12.0 and   *)
(* no max below 15.0.                                                      *)
(***************************************************************************)
C17_MaxClampExample ==
    [][\A w \in DOMAIN widgets :
          (/\ last'.op = "drag"
           /\ last'.widget = w
           /\ Len(pending') > Len(pending)
           /\ widgets[w].drag_state.start_value = 100
           /\ widgets[w].drag_speed = 1
           /\ last'.input = 50) =>
              LET dv      == widgets[w]
                  emitted == pending'[Len(pending')].new_value
              IN  /\ dv.max = [some |-> TRUE, v |-> 120] => emitted = 120
                  /\ (/\ dv.min = [some |-> TRUE, v |-> 120]
                      /\ (dv.max.some => dv.max.v >= 150)) =>
                         emitted = 150]_vars

\* the move of +50 px from 10.0 under max = 12.0 alone has emitted 12.0
C17_Witness ==
    /\ last.op = "drag"
    /\ last.input = 50
    /\ widgets[last.widget].max = [some |-> TRUE, v |-> 120]
    /\ ~widgets[last.widget].min.some
    /\ widgets[last.widget].drag_state.start_value = 100
    /\ pending # <<>>
    /\ pending[Len(pending)].new_value = 120

(***************************************************************************)
(* C18: a drag move on a widget that is dragging queues exactly one        *)
(* change, from that widget and for its locator, and the widget's text     *)
(* shows the value of the change; a drag start, a drag end and a drag move *)
(* on a widget that is not dragging queue nothing and leave every text as  *)
(* it was.                                                                 *)
(***************************************************************************)
C18_ChangesExactlyOnDragMoves ==
    [][\A w \in DOMAIN widgets :
          /\ (/\ last'.op = "drag"
              /\ last'.widget = w
              /\ widgets[w].drag_state.dragging) =>
                 /\ Len(pending') = Len(pending) + 1
                 /\ SubSeq(pending', 1, Len(pending)) = pending
                 /\ pending'[Len(pending')].source = w
                 /\ pending'[Len(pending')].field_path = widgets[w].field_path
                 /\ ParseF64(widgets'[w].text) =
                        [ok |-> TRUE, v |-> pending'[Len(pending')].new_value]
          /\ (/\ \/ last'.op \in {"drag_start", "drag_end"}
                 \/ last'.op = "drag" /\ ~widgets[w].drag_state.dragging
              /\ last'.widget = w) =>
                 /\ pending' = pending
                 /\ DOMAIN widgets' = DOMAIN widgets
                 /\ \A v \in DOMAIN widgets : widgets'[v].text = widgets[v].text
      ]_vars

\* a drag move on a dragging widget has queued a second change, and the
\* widget shows its value
C18_Witness ==
    /\ last.op = "drag"
    /\ widgets[last.widget].drag_state.dragging
    /\ Len(pending) = 2
    /\ pending[2].source = last.widget
    /\ pending[2].new_value # pending[1].new_value
    /\ widgets[last.widget].text = FormatPrec(pending[2].new_value, 2)

C20_EnterCommits ==
    [][\A w \in DOMAIN widgets :
          (/\ last'.op = "Enter"
           /\ last'.widget = w
           /\ last'.input[1]
           /\ widgets[w].drag_state.editing
           /\ ParseF64(widgets[w].drag_state.edit_buffer).ok) =>
              LET dv      == widgets[w]
                  parsed  == ParseF64(dv.drag_state.edit_buffer).v
                  raised  == IF dv.min.some /\ parsed < dv.min.v
                             THEN dv.min.v ELSE parsed
                  clamped == IF dv.max.some /\ raised > dv.max.v
                             THEN dv.max.v ELSE raised
              IN  /\ Len(pending') = Len(pending) + 1
                  /\ SubSeq(pending', 1, Len(pending)) = pending
                  /\ pending'[Len(pending')].source = w
                  /\ pending'[Len(pending')].new_value = clamped
                  /\ pending'[Len(pending')].field_path = dv.field_path
                  /\ ~widgets'[w].drag_state.editing]_vars

\* Enter on a typed 55 under bounds 12.0 and 20.0 has queued 20.0
C20_Witness ==
    /\ last.op = "Enter"
    /\ last.input[1]
    /\ ~widgets[last.widget].drag_state.editing
    /\ widgets[last.widget].min = [some |-> TRUE, v |-> 120]
    /\ widgets[last.widget].max = [some |-> TRUE, v |-> 200]
    /\ pending # <<>>
    /\ pending[Len(pending)].new_value = 200
    /\ pending[Len(pending)].field_path = widgets[last.widget].field_path

(***************************************************************************)
(* C21: Enter pressed on a widget in edit mode whose buffer is not a       *)
(* number queues no change and leaves the queue and the store as they      *)
(* were; the widget leaves edit mode.                                      *)
(***************************************************************************)
C21_EnterOnUnparsableBuffer ==
    [][\A w \in DOMAIN widgets :
          (/\ last'.op = "Enter"
           /\ last'.widget = w
           /\ last'.input[1]
           /\ widgets[w].drag_state.editing
           /\ ~ParseF64(widgets[w].drag_state.edit_buffer).ok) =>
              /\ pending' = pending
              /\ nextId' = nextId
              /\ world' = world
              /\ ~widgets'[w].drag_state.editing]_vars

\* Enter on the buffer "-" has left edit mode with nothing queued
C21_Witness ==
    /\ last.op = "Enter"
    /\ last.input[1]
    /\ ~widgets[last.widget].drag_state.editing
    /\ widgets[last.widget].text = <<"-", "|">>
    /\ pending = <<>>
    /\ world = WidgetWorld

C23_RebuildAbandonsEdit ==
    [][(\/ state'.previous_selection # state.previous_selection
        \/ state'.previous_tab # state.previous_tab) =>
          /\ world' = world
          /\ pending' = pending
          /\ \A w \in DOMAIN widgets' :
                /\ ~widgets'[w].drag_state.dragging
                /\ ~widgets'[w].drag_state.editing
                /\ widgets'[w].drag_state.edit_buffer = <<>>
                /\ ~widgets'[w].drag_state.last_click_time.some]_vars

\* the panel of entity 2 has been rebuilt over a widget that was in edit
\* mode and held the input focus
C23_Witness ==
    /\ last.op = "none"
    /\ input_focus = Dangling
    /\ state.selected_entity = Entity(2, 0)
    /\ state.previous_selection = Entity(2, 0)
    /\ state.active_tab = "Components"
    /\ state.previous_tab = "Components"
    /\ Len(widgets) = 2
    /\ \A w \in DOMAIN widgets :
          /\ ~widgets[w].drag_state.editing
          /\ widgets[w].field_path.entity = Entity(2, 0)

(***************************************************************************)
(* C24: when a widget that was in edit mode is out of it after an Enter or *)
(* an Escape, no widget holds the input focus and the widget's buffer is   *)
(* empty; and these keys are the only steps by which a widget that stays   *)
(* in the panel leaves edit mode.                                          *)
(***************************************************************************)
C24_ExitClearsFocus ==
    [][\A w \in DOMAIN widgets :
          (/\ state' = state
           /\ widgets[w].drag_state.editing
           /\ ~widgets'[w].drag_state.editing) =>
              /\ last'.op \in {"Enter", "Escape"}
              /\ last'.widget = w
              /\ input_focus' = NoFocus
              /\ widgets'[w].drag_state.edit_buffer = <<>>]_vars

\* Enter on an unparsable buffer has ended an edit: the focus is cleared
C24_Witness ==
    /\ last.op = "Enter"
    /\ last.input[1]
    /\ ~widgets[last.widget].drag_state.editing
    /\ widgets[last.widget].drag_state.edit_buffer = <<>>
    /\ widgets[last.widget].text = <<"|">>
    /\ input_focus = NoFocus

(***************************************************************************)
(* C25: the traversal is a function of the component value and the naming  *)
(* overlay alone.  Run again after a step that left the component value    *)
(* as it was, it yields the same rows (labels, value texts, indents,       *)
(* editability, locator steps, order); and while no change has been        *)
(* written back, the locators the rebuild captured are those of the        *)
(* editable rows of a traversal run now.                                   *)
(***************************************************************************)
\* the locator steps of the editable rows, in row order
EditablePathsOf(rows) ==
    LET editable == SelectSeq(rows, LAMBDA row : row.editable.some)
    IN  [n \in DOMAIN editable |-> editable[n].editable.path]

RECURSIVE InlineRendered(_)

\* the value is shown in one row: a scalar, a collection (by its count), or
\* a tuple of at most 4 elements that are each shown so
InlineRendered(f) ==
    \/ f.shape \in {"Opaque", "List", "Array", "Map", "Set"}
    \/ /\ f.shape = "Tuple" /\ Len(f.fields) <= 4
       /\ \A i \in DOMAIN f.fields : InlineRendered(f.fields[i])

RECURSIVE ShownBy(_)
RECURSIVE ShownByFields(_, _)

\* what each row of the traversal of r shows, in row order: the value and
\* whether the row is a payload row of an enum variant
ShownBy(r) ==
    CASE r.shape \in {"Struct", "TupleStruct"} -> ShownByFields(r, 1)
      [] r.shape = "Enum" ->
            << [node |-> r, payload |-> FALSE] >>
            \o LET shown == SelectSeq(r.fields, InlineRendered)
               IN  [n \in DOMAIN shown |-> [node |-> shown[n], payload |-> TRUE]]
      [] OTHER -> IF InlineRendered(r)
                  THEN << [node |-> r, payload |-> FALSE] >>
                  ELSE <<>>

ShownByFields(r, i) ==
    IF i > Len(r.fields) THEN <<>>
    ELSE << [node |-> r.fields[i], payload |-> FALSE] >>
         \o (IF InlineRendered(r.fields[i]) THEN <<>>
             ELSE ShownBy(r.fields[i]))
         \o ShownByFields(r, i + 1)

\* the value is a scalar of one of the six numeric kinds
NumericScalar(r) == r.shape = "Opaque" /\ r.ty \in NumericKinds

C26_EditableIffNumeric ==
    LET rows  == RowsOf(1, "Probe")
        shown == ShownBy(world[1].comps["Probe"])
    IN  /\ Len(shown) = Len(rows)
        /\ \A n \in DOMAIN rows :
              rows[n].editable.some <=> NumericScalar(shown[n].node)

C26_EditableIffNumericOutsideEnums ==
    LET rows  == RowsOf(1, "Probe")
        shown == ShownBy(world[1].comps["Probe"])
    IN  /\ Len(shown) = Len(rows)
        /\ \A n \in DOMAIN rows :
              /\ rows[n].editable.some <=>
                    (NumericScalar(shown[n].node) /\ ~shown[n].payload)
              /\ shown[n].node.shape = "Opaque" =>
                    rows[n].value = DebugFormat(shown[n].node)

\* the rebuilt panel shows an editable integer row, a bool row that is not
\* editable and a numeric payload row of an enum variant that is not either
C26_Witness ==
    LET rows  == RowsOf(1, "Probe")
        shown == ShownBy(world[1].comps["Probe"])
    IN  /\ widgets # <<>>
        /\ \E n \in DOMAIN rows :
              shown[n].node.ty = "i64" /\ rows[n].editable.some
        /\ \E n \in DOMAIN rows :
              /\ shown[n].node.ty = "bool" /\ rows[n].value = "true"
              /\ ~rows[n].editable.some
        /\ \E n \in DOMAIN rows :
              /\ NumericScalar(shown[n].node) /\ shown[n].payload
              /\ ~rows[n].editable.some

(***************************************************************************)
(* C27: a component whose first field, named translation, is a vector of   *)
(* three floats shows a header row for it followed by exactly three rows,  *)
(* labelled x, y, z in that order, each editable; row i carries the        *)
(* locator [Named("translation"), Index(i)] when the vector reflects as a  *)
(* tuple struct (labels from the naming overlay) and [Named("translation"),*)
(* Named(label)] when it reflects as a struct with fields x, y, z.  (The   *)
(* statement with Index(i) for every such vector is                        *)
(* C27_TranslationScenario.)                                               *)
(***************************************************************************)
\* the component has a three-float vector as its first field, translation
HasTranslation(c) ==
    /\ c.shape = "Struct" /\ c.names # <<>> /\ c.names[1] = "translation"
    /\ c.fields[1].ty = "Vec3" /\ Len(c.fields[1].fields) = 3
    /\ \A i \in 1..3 : c.fields[1].fields[i].ty = "f32"

\* the rows of the translation field: a header, then x, y, z with the
\* locator steps given by step, and nothing else editable under translation
TranslationRows(rows, step(_)) ==
    /\ Len(rows) >= 4
    /\ rows[1] = ReflectedField("translation", "[Vec3]", 0, NotEditable)
    /\ \A i \in 0..2 :
          /\ rows[i + 2].name = XYZ[i + 1]
          /\ rows[i + 2].indent = 1
          /\ rows[i + 2].editable.some
          /\ rows[i + 2].editable.path = << Named("translation"), step(i) >>
    /\ \A n \in DOMAIN rows :
          (rows[n].editable.some /\ Head(rows[n].editable.path) = Named("translation"))
              => n \in 2..4

InlineScalarOrSmallTuple(f) ==
    \/ f.shape = "Opaque"
    \/ /\ f.shape = "Tuple" /\ Len(f.fields) <= 4
       /\ \A i \in DOMAIN f.fields : f.fields[i].shape = "Opaque"

RECURSIVE StructRowsFollow(_, _, _, _, _, _)

\* rows are the rows of the fields of s from position i on, where the
\* one-row fields are the inline ones as corrected, or as the claim words it
StructRowsFollow(rows, s, i, indent, path, corrected) ==
    IF i > Len(s.fields) THEN rows = <<>>
    ELSE
        LET f    == s.fields[i]
            here == Append(path, Named(s.names[i]))
            sub  == extract_fields_from_reflect(f, indent + 1,
                        SemanticFieldNames_new, here)
        IN  /\ rows # <<>>
            /\ rows[1].name = s.names[i]
            /\ rows[1].indent = indent
            /\ IF (IF corrected THEN InlineRendered(f)
                   ELSE InlineScalarOrSmallTuple(f))
               THEN StructRowsFollow(Tail(rows), s, i + 1, indent, path,
                        corrected)
               ELSE /\ rows[1].value = "[" \o f.ty \o "]"
                    /\ ~rows[1].editable.some
                    /\ Len(rows) >= 1 + Len(sub)
                    /\ SubSeq(rows, 2, 1 + Len(sub)) = sub
                    /\ \A n \in DOMAIN sub : sub[n].indent >= indent + 1
                    /\ f.shape = "Struct" =>
                          StructRowsFollow(sub, f, 1, indent + 1, here,
                              corrected)
                    /\ StructRowsFollow(SubSeq(rows, 2 + Len(sub), Len(rows)),
                          s, i + 1, indent, path, corrected)

C28_StructTraversalOrder ==
    world[1].comps["Probe"].shape = "Struct" =>
        StructRowsFollow(RowsOf(1, "Probe"), world[1].comps["Probe"], 1, 0,
            <<>>, FALSE)

C28_StructTraversalOrderInline ==
    world[1].comps["Probe"].shape = "Struct" =>
        StructRowsFollow(RowsOf(1, "Probe"), world[1].comps["Probe"], 1, 0,
            <<>>, TRUE)

\* the rebuilt panel shows a struct within a struct within the component:
\* header a, header m one level in, its leaf w two levels in, then the
\* sibling n and the sibling b
C28_Witness ==
    LET rows == RowsOf(1, "Probe")
    IN  /\ widgets # <<>>
        /\ Len(rows) = 5
        /\ rows[1].name = "a" /\ rows[1].value = "[Mid]" /\ rows[1].indent = 0
        /\ rows[2].name = "m" /\ rows[2].value = "[Inner]" /\ rows[2].indent = 1
        /\ rows[3].name = "w" /\ rows[3].indent = 2
        /\ rows[4].name = "n" /\ rows[4].indent = 1
        /\ rows[5].name = "b" /\ rows[5].indent = 0

(***************************************************************************)
(* C29: every enum value the traversal reaches yields a row labelled       *)
(* variant with the active variant's name, not editable, followed for a    *)
(* tuple or struct variant by one row per payload field, one indent        *)
(* deeper and not editable, whatever the shape of the payload field.       *)
(***************************************************************************)
RECURSIVE EnumsIn(_)

\* the enum values the traversal reaches from r through struct and tuple
\* struct fields
EnumsIn(r) ==
    CASE r.shape = "Enum" -> {r}
      [] r.shape \in {"Struct", "TupleStruct"} ->
            UNION {EnumsIn(r.fields[i]) : i \in DOMAIN r.fields}
      [] OTHER -> {}

C29_EnumPayloadRows ==
    \A e \in EnumsIn(world[1].comps["Probe"]) :
        LET rows == extract_fields_from_reflect(e, 0, SemanticFieldNames_new,
                        <<>>)
        IN  /\ rows # <<>>
            /\ rows[1] = ReflectedField("variant", e.variant, 0, NotEditable)
            /\ Len(rows) = 1 + Len(e.fields)
            /\ \A n \in 2..Len(rows) :
                  rows[n].indent = 1 /\ ~rows[n].editable.some

(***************************************************************************)
(* C30: a List, Array, Map or Set yields exactly one row, not editable,    *)
(* whose text is its element or entry count, wherever the traversal meets  *)
(* it (a struct field, a tuple-struct field, an enum payload field, the    *)
(* traversed value itself); the row that follows is never deeper, so no    *)
(* row and no locator belongs to an element.                               *)
(***************************************************************************)
IsCollection(r) == r.shape \in {"List", "Array", "Map", "Set"}

\* the text of the summary row of collection c
CountText(c) ==
    CASE c.shape \in {"List", "Array"} -> "[" \o ToString(c.len) \o " items]"
      [] c.shape = "Map" -> "{" \o ToString(c.len) \o " entries}"
      [] OTHER -> "{" \o ToString(c.len) \o " items}"

\* the collections among the values the rows of r show
CollectionsShown(r) ==
    {ShownBy(r)[n].node : n \in {m \in DOMAIN ShownBy(r) :
                                    IsCollection(ShownBy(r)[m].node)}}

C30_CollectionSummaryRow ==
    LET c     == world[1].comps["Probe"]
        rows  == RowsOf(1, "Probe")
        shown == ShownBy(c)
        Summary(name, v, indent) ==
            ReflectedField(name, CountText(v), indent, NotEditable)
        Rows(v) == extract_fields_from_reflect(v, 0, SemanticFieldNames_new, <<>>)
    IN  /\ Len(shown) = Len(rows)
        /\ \A n \in DOMAIN rows :
              IsCollection(shown[n].node) =>
                  /\ rows[n].value = CountText(shown[n].node)
                  /\ ~rows[n].editable.some
                  /\ n < Len(rows) => rows[n + 1].indent <= rows[n].indent
        /\ \A w \in DOMAIN widgets :
              LET path == widgets[w].field_path.path
              IN  \A k \in 0..(Len(path) - 1) :
                      LET at == Addressed(c, SubSeq(path, 1, k))
                      IN  at # <<0>> /\ ~IsCollection(NodeAt(c, at))
        /\ \A v \in CollectionsShown(c) :
              /\ Rows(v) = << Summary("value", v, 0) >>
              /\ Rows(Struct("Holder", <<"items">>, <<v>>))
                    = << Summary("items", v, 0) >>
              /\ Rows(TupleStruct("Holder", <<v>>)) = << Summary(".0", v, 0) >>
              /\ Rows(EnumOf("Holder", "Some", "Tuple", <<>>, <<v>>))
                    = << ReflectedField("variant", "Some", 0, NotEditable),
                         Summary(".0", v, 1) >>

\* the rebuilt panel shows a list of two structs, each with a float field,
\* as the one row `[2 items]`
C30_Witness ==
    LET rows  == RowsOf(1, "Probe")
        shown == ShownBy(world[1].comps["Probe"])
    IN  /\ widgets # <<>>
        /\ \E n \in DOMAIN rows :
              /\ shown[n].node.shape = "List"
              /\ Len(shown[n].node.fields) = 2
              /\ shown[n].node.fields[1].fields[1].ty = "f32"
              /\ rows[n].value = "[2 items]"

(***************************************************************************)
(* C31: the row for index i of a tuple struct of type T is labelled with   *)
(* the name the overlay holds for (T, i), and with .i when T is not        *)
(* registered or i lies beyond its names; the rows are otherwise the same  *)
(* under any overlay, and the locator of an editable row ends in Index(i). *)
(* Checked for the overlay of SemanticFieldNames::new and for one where    *)
(* the host registered a single name for a two-field type.                 *)
(***************************************************************************)
RECURSIVE TupleStructsIn(_)

\* the tuple structs the traversal reaches from r through struct and tuple
\* struct fields
TupleStructsIn(r) ==
    (IF r.shape = "TupleStruct" THEN {r} ELSE {})
    \cup (IF r.shape \in {"Struct", "TupleStruct"}
          THEN UNION {TupleStructsIn(r.fields[i]) : i \in DOMAIN r.fields}
          ELSE {})

\* the overlay after the host called register::<Vec2>(&["x"])
ShortOverlay == [SemanticFieldNames_new EXCEPT !["Vec2"] = <<"x">>]

\* no type is registered
EmptyOverlay == [t \in {} |-> <<>>]

C31_TupleStructLabels ==
    \A ts \in TupleStructsIn(world[1].comps["Probe"]) :
        \A overlay \in {SemanticFieldNames_new, ShortOverlay} :
            LET rows  == extract_fields_from_reflect(ts, 0, overlay, <<>>)
                plain == extract_fields_from_reflect(ts, 0, EmptyOverlay, <<>>)
                own   == SelectSeq(rows, LAMBDA row : row.indent = 0)
            IN  /\ Len(own) = Len(ts.fields)
                /\ \A i \in 0..(Len(ts.fields) - 1) :
                      /\ own[i + 1].name =
                            IF ts.ty \in DOMAIN overlay /\ i < Len(overlay[ts.ty])
                            THEN overlay[ts.ty][i + 1]
                            ELSE "." \o ToString(i)
                      /\ own[i + 1].editable.some =>
                            own[i + 1].editable.path = << Index(i) >>
                /\ Len(plain) = Len(rows)
                /\ \A n \in DOMAIN rows :
                      /\ rows[n].editable = plain[n].editable
                      /\ rows[n].value = plain[n].value
                      /\ rows[n].indent = plain[n].indent

\* the rebuilt panel shows a registered vector inside a tuple struct that is
\* not registered: labels x and y next to a label .1, each with a widget
C31_Witness ==
    LET rows == RowsOf(1, "Probe")
    IN  /\ widgets # <<>>
        /\ \E n \in DOMAIN rows :
              /\ rows[n].name = "y" /\ rows[n].editable.some
              /\ rows[n].editable.path[Len(rows[n].editable.path)] = Index(1)
        /\ \E n \in DOMAIN rows :
              /\ rows[n].name = ".1" /\ rows[n].editable.some
              /\ rows[n].editable.path[Len(rows[n].editable.path)] = Index(1)

(***************************************************************************)
(* C32: the step by which a widget enters edit mode leaves it without a    *)
(* last-click time; no step but a click on the widget gives it one; and a  *)
(* click on a widget without a last-click time never enters edit mode, it  *)
(* only records its own instant.  Hence the click that follows a           *)
(* successful double click is a first click, however soon it comes and     *)
(* whether or not the widget has left edit mode in between.                *)
(***************************************************************************)
C32_TripleClickSuppressed ==
    [][\A w \in DOMAIN widgets :
          state' = state =>
            LET before == widgets[w].drag_state
                after  == widgets'[w].drag_state
            IN  /\ (~before.editing /\ after.editing) =>
                      ~after.last_click_time.some
                /\ after.last_click_time # before.last_click_time =>
                      last'.op = "click" /\ last'.widget = w
                /\ (last'.op = "click" /\ last'.widget = w
                        /\ ~before.last_click_time.some) =>
                      /\ after.editing = before.editing
                      /\ after.last_click_time = [some |-> TRUE, v |-> now]]_vars

\* within 300 ms of a double click that entered edit mode, after a key left
\* it again, the widget was clicked: it is not in edit mode
C32_Witness ==
    /\ last.op = "click"
    /\ now < DOUBLE_CLICK_THRESHOLD_MS
    /\ ~widgets[last.widget].drag_state.editing
    /\ widgets[last.widget].drag_state.original_value # 0
    /\ widgets[last.widget].drag_state.last_click_time = [some |-> TRUE, v |-> now]
    /\ input_focus = NoFocus

(***************************************************************************)
(* C33: on a key event delivered to a widget in edit mode, a character key *)
(* appends its text to the buffer when every character of it is a digit or *)
(* one of . - + e E and changes nothing otherwise; Backspace drops the     *)
(* last character of the buffer, if any; neither leaves edit mode, moves   *)
(* the focus or emits a change.  A key release, and a key delivered to a   *)
(* widget that is not in edit mode, change nothing.                        *)
(***************************************************************************)
\* the characters a buffer accepts
NumberChars ==
    {"0", "1", "2", "3", "4", "5", "6", "7", "8", "9", ".", "-", "+", "e", "E"}

LiveValue(fp) ==
    NodeAt(ComponentOf(world, fp),
           Addressed(ComponentOf(world, fp), fp.path)).val

C35_EditingImpliesFocus ==
    \A w \in DOMAIN widgets :
        widgets[w].drag_state.editing => input_focus = w


(***************************************************************************)
(* C36: no widget is dragging and in edit mode at the same time, so no     *)
(* drag move enqueues a change for a widget in edit mode.                  *)
(***************************************************************************)
C36_NeverDraggingAndEditing ==
    \A w \in DOMAIN widgets :
        ~(widgets[w].drag_state.dragging /\ widgets[w].drag_state.editing)


(***************************************************************************)
(* C37: the text of a widget that is not in edit mode is a formatted       *)
(* number without the cursor mark, so a drag-start or a double click that  *)
(* follows snapshots the displayed value and never falls back to 0.0.      *)
(***************************************************************************)
C37_IdleTextIsNumber ==
    \A w \in DOMAIN widgets :
        ~widgets[w].drag_state.editing =>
            /\ \A i \in DOMAIN widgets[w].text : widgets[w].text[i] # "|"
            /\ ParseF64(widgets[w].text).ok


(***************************************************************************)
(* C38: once a write-back pass has processed the latest change a widget    *)
(* emitted, the value the widget displays equals the value the store holds *)
(* at the leaf of the widget's locator, whatever the kind of the leaf, the *)
(* emitted value and the outcome of the write-back.                        *)
(***************************************************************************)
C38_DisplayAgreesWithStore ==
    AfterPass =>
        \A w \in DOMAIN widgets :
            (/\ \E k \in DOMAIN last.batch : last.batch[k].source = w
             /\ \A k \in DOMAIN pending : pending[k].source # w
             /\ Resolves(world, widgets[w].field_path)) =>
                LET fp   == widgets[w].field_path
                    leaf == NodeAt(ComponentOf(world, fp),
                                Addressed(ComponentOf(world, fp), fp.path))
                IN  TextValue(widgets[w].text) = try_extract_numeric(leaf).v


(***************************************************************************)
(* C39: the input focus never refers to a discarded widget: the focus      *)
(* holder, if there is one, is a widget of the panel and is in edit mode;  *)
(* a rebuild that discards a widget in edit mode releases the focus.       *)
(***************************************************************************)
C39_FocusHolderExists ==
    input_focus # NoFocus =>
        /\ input_focus \in DOMAIN widgets
        /\ widgets[input_focus].drag_state.editing


(***************************************************************************)
(* C40, as stated: within one drag gesture the value a move emits depends  *)
(* only on the start value taken at drag start and on the distance of the  *)
(* move; a move back to distance 0 emits the start value.                  *)
(***************************************************************************)
C40_MoveBackEmitsStart ==
    [][(/\ last'.op = "drag"
        /\ last'.input = 0
        /\ widgets[last'.widget].drag_state.dragging) =>
          /\ Len(pending') = Len(pending) + 1
          /\ pending'[Len(pending')].new_value =
                widgets[last'.widget].drag_state.start_value]_vars

(***************************************************************************)
(* C40, amended: the value a move emits is determined by the start value   *)
(* taken at drag start, the distance of the move and the widget's speed    *)
(* and bounds, whatever was emitted, displayed or written back before, and *)
(* a move leaves the start value as it is; a move back to distance 0 emits *)
(* the start value brought into the bounds, which is the start value       *)
(* itself when it lies within them.                                        *)
(***************************************************************************)
\* v raised to min and lowered to max, where configured
Bounded(v, min, max) ==
    IF max.some /\ (v > max.v \/ (min.some /\ min.v > max.v)) THEN max.v
    ELSE IF min.some /\ v < min.v THEN min.v
    ELSE v

C40_MoveDependsOnStartAndDistance ==
    [][(/\ last'.op = "drag"
        /\ widgets[last'.widget].drag_state.dragging) =>
          LET dv    == widgets[last'.widget]
              start == dv.drag_state.start_value
          IN  /\ Len(pending') = Len(pending) + 1
              /\ pending'[Len(pending')].new_value =
                    Bounded(start + last'.input * dv.drag_speed,
                            dv.min, dv.max)
              /\ widgets'[last'.widget].drag_state.start_value = start
              /\ last'.input = 0 =>
                    pending'[Len(pending')].new_value =
                        Bounded(start, dv.min, dv.max)
              /\ (/\ last'.input = 0
                  /\ dv.min.some => dv.min.v <= start
                  /\ dv.max.some => start <= dv.max.v) =>
                    pending'[Len(pending')].new_value = start]_vars

\* a gesture from 10.0 moved to +50 px, its change written back, and then
\* moved back to distance 0: the last move has emitted 10.0
C40_Witness ==
    /\ last.op = "drag"
    /\ last.input = 0
    /\ widgets[last.widget].drag_state.dragging
    /\ widgets[last.widget].drag_state.start_value = 100
    /\ LiveValue(widgets[last.widget].field_path) = 150
    /\ Len(pending) = 1
    /\ pending[1].new_value = 100
    /\ widgets[last.widget].text = <<"1", "0", ".", "0", "0">>

=============================================================================
